---- MODULE Spec2Model ----
(***************************************************************************)
(* Employee analytics dashboard: the fetch-and-cache orchestration of      *)
(* src/pages/Index.tsx (the main data fetching effect), the API client     *)
(* (services/api.ts) it calls and the filter UI (DashboardFilters.tsx)     *)
(* that produces its filter state.                                         *)
(*                                                                         *)
(* JavaScript values of mixed type are records tagged with a type field:   *)
(* undefined, null, NaN, numbers, optional strings and Date objects.       *)
(* Arrays are sequences, plain strings are strings.                        *)
(***************************************************************************)
EXTENDS Integers, Sequences, FiniteSets, TLC

(***************************************************************************)
(* Bounds of the model.                                                    *)
(***************************************************************************)
\* passes (runs of the main effect) the model follows
MaxPasses == 2
\* filter changes the user makes
MaxUserChanges == 1
\* requests of earlier passes that may still be pending when a pass starts
MaxStale == 1
\* requests that fail
MaxFailures == 1
\* runs of the effect followed when they do not overlap
MaxSeqPasses == 3
\* employees of a roster the page is followed on
MaxRoster == 3
\* runs of the effect followed from mount when the user changes no filter
MaxMountPasses == 4

(***************************************************************************)
(* JavaScript values.                                                      *)
(***************************************************************************)
Undefined == [type |-> "undefined"]
Null == [type |-> "null"]
NaN == [type |-> "NaN"]
Num(n) == [type |-> "number", value |-> n]
Str(s) == [type |-> "string", value |-> s]

\* truthiness of a tagged value, as used by `x || y` and `if (x)`
Truthy(v) ==
    CASE v.type = "undefined" -> FALSE
      [] v.type = "null" -> FALSE
      [] v.type = "NaN" -> FALSE
      [] v.type = "number" -> v.value # 0
      [] v.type = "string" -> v.value # ""
      [] OTHER -> TRUE

\* string conversion of a tagged value inside a template literal
TemplateString(v) ==
    CASE v.type = "number" -> ToString(v.value)
      [] v.type = "string" -> v.value
      [] OTHER -> v.type

\* a || b
Or(a, b) == IF Truthy(a) THEN a ELSE b

Digits == <<"0", "1", "2", "3", "4", "5", "6", "7", "8", "9">>

IsDigit(c) == \E i \in 1..10 : Digits[i] = c

DigitValue(c) == (CHOOSE i \in 1..10 : Digits[i] = c) - 1

\* length of the leading run of digits of s
RECURSIVE DigitPrefix(_)
DigitPrefix(s) ==
    IF Len(s) > 0 /\ IsDigit(SubSeq(s, 1, 1)) THEN 1 + DigitPrefix(Tail(s)) ELSE 0

RECURSIVE DigitsToNat(_, _)
DigitsToNat(s, acc) ==
    IF Len(s) = 0 THEN acc
    ELSE DigitsToNat(Tail(s), 10 * acc + DigitValue(SubSeq(s, 1, 1)))

\* parseFloat of a string argument (Str) or of undefined: the number written
\* by the longest leading run of digits, NaN when there is none
parseFloat(v) ==
    IF v.type # "string" THEN NaN
    ELSE LET n == DigitPrefix(v.value)
         IN IF n = 0 THEN NaN ELSE Num(DigitsToNat(SubSeq(v.value, 1, n), 0))

\* String.prototype.split with a one-character separator
RECURSIVE split(_, _)
split(s, sep) ==
    IF \E i \in 1..Len(s) : SubSeq(s, i, i) = sep
    THEN LET i == CHOOSE k \in 1..Len(s) :
                     /\ SubSeq(s, k, k) = sep
                     /\ \A j \in 1..(k - 1) : SubSeq(s, j, j) # sep
         IN <<SubSeq(s, 1, i - 1)>> \o split(SubSeq(s, i + 1, Len(s)), sep)
    ELSE <<s>>

\* element i of an array of strings, undefined past its end (destructuring)
At(arr, i) == IF i <= Len(arr) THEN Str(arr[i]) ELSE Undefined

\* JSON.stringify / JSON.parse: the stored text wraps the value it encodes
JSONstringify(v) == [type |-> "json", text |-> v]

JSONparse(t) == t.text

\* JSON.parse throws a SyntaxError on a text that is not JSON; the texts
\* JSON.stringify wrote are
JSONparseThrows(t) == t.type # "json"

\* Storage.getItem / Storage.setItem on a store (a function from its keys)
getItem(store, key) == IF key \in DOMAIN store THEN store[key] ELSE Null

setItem(store, key, text) ==
    [k \in DOMAIN store \cup {key} |-> IF k = key THEN text ELSE store[k]]

(***************************************************************************)
(* State of the Index component and of its environment.                    *)
(***************************************************************************)
VARIABLES
    isLoading,                  \* useState(true)
    employeeData,               \* live-state slot: roster
    attendanceTrendData,        \* live-state slot: trends
    attendanceRecords,          \* live-state slot: attendance records
    lateStatistics,             \* live-state slot: late statistics
    onTimeStatistics,           \* live-state slot: on-time statistics
    filters,                    \* FilterState
    isInitialDateSynchronized,  \* useRef(false): the auto-sync flag
    localStorage,               \* durable store
    sessionStorage,             \* session store
    effectDeps,                 \* dependencies the main effect last ran with
    passes,                     \* the runs of the main effect, in start order
    userChanges,                \* filter changes the user has made
    tzWest,                     \* the browser's time zone is west of UTC
    filteredEmployeeData,       \* useState([]): the client-side filtered roster
    filteredAttendanceRecords,  \* useState([]): the records handed to the grid
    rendered,                   \* what the last render of Index put on the page
    axiosResponses,             \* what the transport answers the request of each source with
    currentPage,                \* EmployeeAttendanceGrid: useState(1)
    searchQuery,                \* EmployeeAttendanceGrid (search version): useState('')
    filteredData,               \* EmployeeAttendanceGrid (search version): useState(data)
    gridDeps,                   \* [searchQuery, data] the effect of the grid last ran with
    gridView,                   \* what the last render of the grid showed
    pageInput,                  \* value of the go-to-page input at its last submit
    mockDailyAttendanceData,    \* mockData: the daily entries generated so far
    isLateCall                  \* mockData: the last call of isLate and what it returned

vars == <<isLoading, employeeData, attendanceTrendData, attendanceRecords,
          lateStatistics, onTimeStatistics, filters, isInitialDateSynchronized,
          localStorage, sessionStorage, effectDeps, passes, userChanges, tzWest,
          filteredEmployeeData, filteredAttendanceRecords, rendered,
          axiosResponses, currentPage, searchQuery, filteredData, gridDeps, gridView,
          pageInput, mockDailyAttendanceData, isLateCall>>

\* the state of the data fetching effect of Index and of its environment
indexVars == <<isLoading, employeeData, attendanceTrendData, attendanceRecords,
               lateStatistics, onTimeStatistics, filters, isInitialDateSynchronized,
               localStorage, sessionStorage, effectDeps, passes, userChanges, tzWest>>

\* the state of the transport, of the attendance grid and of the mock data module
componentVars == <<axiosResponses, currentPage, searchQuery, filteredData, gridDeps,
                   gridView, pageInput, mockDailyAttendanceData, isLateCall>>

\* the state of the page below the data fetching effect
viewVars == <<filteredEmployeeData, filteredAttendanceRecords, rendered, componentVars>>

\* the grid as it mounts (first page, empty search); no mock data generated and
\* isLate not called; the transport left out (a request settles either way)
ComponentsInit ==
    /\ axiosResponses = Null
    /\ currentPage = 1
    /\ searchQuery = ""
    /\ filteredData = <<>>
    /\ gridDeps = Null
    /\ gridView = Null
    /\ pageInput = Null
    /\ mockDailyAttendanceData = <<>>
    /\ isLateCall = Null

(***************************************************************************)
(* Dates.  A Date object is an instant: local midnight of a calendar day   *)
(* (a date picked in the calendar) or UTC midnight of it (new Date of a    *)
(* date-only ISO string).  Days are indices into Calendar.                 *)
(***************************************************************************)
Calendar == <<[y |-> 2024, m |-> 2, d |-> 29],
              [y |-> 2024, m |-> 3, d |-> 1],
              [y |-> 2024, m |-> 3, d |-> 2]>>

DateObj(day, utc) == [type |-> "Date", day |-> day, utc |-> utc]

\* n written with at least w digits
RECURSIVE Pad(_, _)
Pad(n, w) ==
    IF w <= 1 /\ n < 10 THEN ToString(n)
    ELSE Pad(n \div 10, w - 1) \o ToString(n % 10)

\* the calendar day of the instant in the browser's time zone
LocalDay(date) == IF date.utc /\ tzWest THEN date.day - 1 ELSE date.day

\* date-fns format(date, 'yyyy-MM-dd')
format(date) ==
    LET c == Calendar[LocalDay(date)]
    IN Pad(c.y, 4) \o "-" \o Pad(c.m, 2) \o "-" \o Pad(c.d, 2)

\* new Date(isoDate) of a date-only string "yyyy-MM-dd": UTC midnight
newDate(iso) ==
    LET parts == split(iso, "-")
        c == [y |-> DigitsToNat(parts[1], 0),
              m |-> DigitsToNat(parts[2], 0),
              d |-> DigitsToNat(parts[3], 0)]
    IN DateObj(CHOOSE i \in 1..Len(Calendar) : Calendar[i] = c, TRUE)

(***************************************************************************)
(* The filter UI (DashboardFilters.tsx).                                   *)
(***************************************************************************)
genders == {"all", "Male", "Female"}

departments == {"all", "Engineering", "Human Resources", "Finance", "Marketing",
                "Sales", "Operations", "IT Support", "R&D", "Customer Support",
                "Legal"}

travelDistances == {"all", "0-5", "5-10", "10-15", "15-20", "20-100"}

attendanceStatuses == {"all", "OnTime", "Late", "Half Day", "Absent", "Present"}

\* useState of filters: every select on "all", no date
DefaultFilters ==
    [gender |-> "all", department |-> "all", travelDistance |-> "all",
     attendanceStatus |-> "all", date |-> Undefined]

\* the dependency array of the main effect
Deps(f) == <<f.date, f.gender, f.travelDistance, f.department, f.attendanceStatus>>

(***************************************************************************)
(* services/api.ts                                                         *)
(***************************************************************************)
UpperCase == "ABCDEFGHIJKLMNOPQRSTUVWXYZ"
LowerCase == "abcdefghijklmnopqrstuvwxyz"

RECURSIVE toLowerCase(_)
toLowerCase(s) ==
    IF Len(s) = 0 THEN ""
    ELSE LET c == SubSeq(s, 1, 1)
             lc == IF \E i \in 1..26 : SubSeq(UpperCase, i, i) = c
                   THEN LET i == CHOOSE k \in 1..26 : SubSeq(UpperCase, k, k) = c
                        IN SubSeq(LowerCase, i, i)
                   ELSE c
         IN lc \o toLowerCase(Tail(s))

\* params object with one more entry
WithParam(params, name, v) ==
    [k \in DOMAIN params \cup {name} |-> IF k = name THEN v ELSE params[k]]

NoParams == [k \in {} |-> Undefined]

\* variant of getAllAttendanceRecords that tests the travel bounds for truthiness
\* (if (travelDistanceMin)), which drops a bound of 0
getAllAttendanceRecords_Truthy(args) ==
    LET p0 == NoParams
        p1 == IF Truthy(args[1]) THEN WithParam(p0, "date_filter", args[1]) ELSE p0
        p2 == IF Truthy(args[2]) /\ toLowerCase(args[2].value) # "all"
              THEN WithParam(p1, "gender_filter", args[2]) ELSE p1
        p3 == IF Truthy(args[3]) THEN WithParam(p2, "travelDistanceMin", args[3]) ELSE p2
        p4 == IF Truthy(args[4]) THEN WithParam(p3, "travelDistanceMax", args[4]) ELSE p3
    IN [url |-> "/attendance/records", params |-> p4]

\* getAllAttendanceRecords(dateFilter, genderFilter, travelDistanceMin,
\* travelDistanceMax): the request it sends.  args are the arguments of the call;
\* the function binds the first four and ignores the rest.
getAllAttendanceRecords(args) ==
    LET dateFilter == args[1]
        genderFilter == args[2]
        travelDistanceMin == args[3]
        travelDistanceMax == args[4]
        p0 == NoParams
        p1 == IF Truthy(dateFilter) THEN WithParam(p0, "date_filter", dateFilter) ELSE p0
        p2 == IF Truthy(genderFilter) /\ toLowerCase(genderFilter.value) # "all"
              THEN WithParam(p1, "gender_filter", genderFilter) ELSE p1
        p3 == IF travelDistanceMin # Undefined /\ travelDistanceMin # Null
              THEN WithParam(p2, "travelDistanceMin", travelDistanceMin) ELSE p2
        p4 == IF travelDistanceMax # Undefined /\ travelDistanceMax # Null
              THEN WithParam(p3, "travelDistanceMax", travelDistanceMax) ELSE p3
    IN [url |-> "/attendance/records", params |-> p4]

getEmployees == [url |-> "/employees", params |-> NoParams]
getAttendanceTrends == [url |-> "/attendance/trends", params |-> NoParams]
getLateStatistics == [url |-> "/stats/late", params |-> NoParams]
getOntimeStatistics == [url |-> "/stats/ontime", params |-> NoParams]

(***************************************************************************)
(* The locals of one run of fetchData, computed from the filters the       *)
(* effect closed over.                                                     *)
(***************************************************************************)
dateParam(f) == IF Truthy(f.date) THEN Str(format(f.date)) ELSE Undefined

travelMin(f) ==
    IF f.travelDistance # "all"
    THEN parseFloat(At(split(f.travelDistance, "-"), 1))
    ELSE Undefined

\* variant of travelMax that keeps an upper bound of 100
travelMax_Closed(f) ==
    IF f.travelDistance # "all"
    THEN parseFloat(At(split(f.travelDistance, "-"), 2))
    ELSE Undefined

travelMax(f) ==
    IF f.travelDistance # "all"
    THEN LET maxStr == At(split(f.travelDistance, "-"), 2)
         IN IF maxStr = Str("100") THEN Undefined ELSE parseFloat(maxStr)
    ELSE Undefined
\* variant of attendanceCacheKey without the department segment
attendanceCacheKey_NoDepartment(f) ==
    "attendanceRecords_" \o TemplateString(Or(dateParam(f), Str("latest")))
        \o "_" \o f.gender
        \o "_" \o f.attendanceStatus
        \o "_" \o TemplateString(Or(travelMin(f), Str("any")))
        \o "_" \o TemplateString(Or(travelMax(f), Str("any")))

\* variant of attendanceCacheKey whose date segment depends on the sync flag
attendanceCacheKey_Synced(f) ==
    "attendanceRecords_"
        \o TemplateString(Or(dateParam(f),
                             IF isInitialDateSynchronized THEN Str("synced")
                             ELSE Str("latest")))
        \o "_" \o f.gender
        \o "_" \o f.department
        \o "_" \o f.attendanceStatus
        \o "_" \o TemplateString(Or(travelMin(f), Str("any")))
        \o "_" \o TemplateString(Or(travelMax(f), Str("any")))

attendanceCacheKey(f) ==
    "attendanceRecords_" \o TemplateString(Or(dateParam(f), Str("latest")))
        \o "_" \o f.gender
        \o "_" \o f.department
        \o "_" \o f.attendanceStatus
        \o "_" \o TemplateString(Or(travelMin(f), Str("any")))
        \o "_" \o TemplateString(Or(travelMax(f), Str("any")))

\* the call of getAllAttendanceRecords in fetchData
recordsRequest(f) ==
    getAllAttendanceRecords(<<dateParam(f), Str(f.gender), travelMin(f), travelMax(f),
                              Str(f.department), Str(f.attendanceStatus)>>)

(***************************************************************************)
(* The backend, an external collaborator: the payloads it may answer with. *)
(***************************************************************************)
Employee(id, gender, department, travelKm) ==
    [id |-> id, gender |-> gender, department |-> department, travelKm |-> travelKm]

EmployeePayloads ==
    {<<Employee(1, "Female", "Engineering", Num(5)), Employee(2, "Male", "Finance", Num(25))>>}

TrendPayloads ==
    {<<[month |-> "Mar", presentPercent |-> 90, latePercent |-> 6, absentPercent |-> 4]>>}

LatePayloads == {[type |-> "object", totalLate |-> 3]}

OnTimePayloads == {[type |-> "object", totalOnTime |-> 7]}

\* the dates the backend has attendance data for
ServerDates == {"2024-03-01", "2024-03-02"}

AttendanceRecord(id, date) == [id |-> id, date |-> date]

\* /attendance/records answers with the records of the requested date, of one of
\* its dates with data when no date is requested, or with no record at all
RecordsPayloads(request) ==
    {<<>>} \cup
    {<<AttendanceRecord(1, d)>> :
        d \in IF "date_filter" \in DOMAIN request.params
              THEN {request.params["date_filter"].value}
              ELSE ServerDates}

(***************************************************************************)
(* One run of the main effect (a pass): the filters its closure captured,  *)
(* whether hydration found a cache entry, and the promises it awaits.      *)
(***************************************************************************)
Sources == {"employees", "trends", "late", "ontime", "records"}

FetchPromise(source, request) ==
    [source |-> source, request |-> request, state |-> "pending"]

\* the promise of pass p for a source is pending
Pending(p, source) ==
    /\ p \in 1..Len(passes)
    /\ \E i \in 1..Len(passes[p].fetchPromises) :
          /\ passes[p].fetchPromises[i].source = source
          /\ passes[p].fetchPromises[i].state = "pending"

\* passes with the promise of pass p for a source settled as state
Settled(p, source, state) ==
    LET fps == passes[p].fetchPromises
    IN [passes EXCEPT ![p].fetchPromises =
           [i \in 1..Len(fps) |->
               IF fps[i].source = source /\ fps[i].state = "pending"
               THEN [fps[i] EXCEPT !.state = state]
               ELSE fps[i]]]

\* Promise.allSettled(fetchPromises) of a pass has resolved
AllSettled(pass) ==
    \A i \in 1..Len(pass.fetchPromises) : pass.fetchPromises[i].state # "pending"

\* variant of AfterAwait that awaits Promise.race: the first settlement clears
AfterAwait_Race(ps, p) ==
    IF \E i \in 1..Len(ps[p].fetchPromises) : ps[p].fetchPromises[i].state # "pending"
    THEN FALSE ELSE isLoading

\* variant of AfterAwait that awaits Promise.all of the bare requests: a
\* rejection throws and the flag is never cleared
AfterAwait_All(ps, p) ==
    IF \A i \in 1..Len(ps[p].fetchPromises) : ps[p].fetchPromises[i].state = "fulfilled"
    THEN FALSE ELSE isLoading

\* await Promise.allSettled(fetchPromises); setIsLoading(false): the loading flag
\* after a handler of pass p has run, ps being the passes it leaves
AfterAwait(ps, p) == IF AllSettled(ps[p]) THEN FALSE ELSE isLoading

\* requests of started passes that have not settled, and those that failed
RequestsIn(state) ==
    {<<p, i>> \in (1..Len(passes)) \X (1..5) :
        /\ i <= Len(passes[p].fetchPromises)
        /\ passes[p].fetchPromises[i].state = state}

PendingRequests == RequestsIn("pending")

FailedRequests == RequestsIn("rejected")

(***************************************************************************)
(* Initial state: the component before its first effect runs.  The stores  *)
(* hold what earlier sessions (localStorage) or an earlier load in the     *)
(* same tab (sessionStorage) left in them.                                 *)
(***************************************************************************)
EmptyStore == [k \in {} |-> Null]

CachedRoster == <<Employee(1, "Female", "Engineering", Num(5))>>

CachedRecords == <<AttendanceRecord(1, "2024-03-01")>>

InitialStores ==
    {[local |-> EmptyStore, session |-> EmptyStore],
     [local |-> setItem(EmptyStore, "employeeData", JSONstringify(CachedRoster)),
      session |-> EmptyStore],
     [local |-> setItem(EmptyStore, "employeeData", JSONstringify(CachedRoster)),
      session |-> setItem(EmptyStore, attendanceCacheKey(DefaultFilters),
                          JSONstringify(CachedRecords))]}

Init ==
    /\ isLoading = TRUE
    /\ employeeData = <<>>
    /\ attendanceTrendData = <<>>
    /\ attendanceRecords = <<>>
    /\ lateStatistics = Null
    /\ onTimeStatistics = Null
    /\ filters = DefaultFilters
    /\ isInitialDateSynchronized = FALSE
    /\ \E st \in InitialStores :
          /\ localStorage = st.local
          /\ sessionStorage = st.session
    /\ effectDeps = <<>>
    /\ passes = <<>>
    /\ userChanges = 0
    /\ tzWest \in BOOLEAN
    /\ filteredEmployeeData = <<>>
    /\ filteredAttendanceRecords = <<>>
    /\ rendered = Null
    /\ ComponentsInit

(***************************************************************************)
(* The main data fetching effect.  fetchData has no await before           *)
(* Promise.allSettled, so one run of the effect sets the loading flag,     *)
(* hydrates from the caches and issues the five requests in one step.      *)
(***************************************************************************)
\* the auto-sync condition on a record set, for a run that closed over filters f
SyncsDate(f, records) ==
    /\ ~isInitialDateSynchronized
    /\ f.date = Undefined
    /\ Len(records) > 0
    /\ Truthy(Str(records[1].date))

\* a cache hit publishes the parsed entry to its slot; a miss leaves the slot
Hydrate(cached, slot) == IF Truthy(cached) THEN JSONparse(cached) ELSE slot

\* variant of LoadingAfterHydration without the early setIsLoading(false)
LoadingAfterHydration_NoClear(hasCachedDataBeenSet) == TRUE

\* setIsLoading(true) at the start of the effect, setIsLoading(false) after a
\* cache hit: the loading flag when hydration is over
LoadingAfterHydration(hasCachedDataBeenSet) == ~hasCachedDataBeenSet

\* variant of IssuedAfter with hydration in a try/catch: the requests are
\* issued whatever JSON.parse did
IssuedAfter_Caught(thrownAt, fetchPromises) == fetchPromises

\* the requests a run issues: hydration comes first and is in no try block, so
\* a run in which JSON.parse threw (thrownAt # 0) never gets to issue any
IssuedAfter(thrownAt, fetchPromises) == IF thrownAt # 0 THEN <<>> ELSE fetchPromises

fetchData ==
    /\ effectDeps # Deps(filters)
    /\ LET f == filters
           cachedEmployees == getItem(localStorage, "employeeData")
           cachedTrends == getItem(sessionStorage, "attendanceTrendData")
           cachedLateStats == getItem(sessionStorage, "lateStatistics")
           cachedOnTimeStats == getItem(sessionStorage, "onTimeStatistics")
           cachedRecords == getItem(sessionStorage, attendanceCacheKey(f))
           hasCachedDataBeenSet ==
               \/ Truthy(cachedEmployees)
               \/ Truthy(cachedTrends)
               \/ Truthy(cachedLateStats)
               \/ Truthy(cachedOnTimeStats)
               \/ Truthy(cachedRecords)
           \* the entries in the order hydration parses them, and the first of
           \* them JSON.parse throws on (0: none); the throw rejects the promise
           \* of fetchData, nothing catches it and the rest of the run is skipped
           cached == <<cachedEmployees, cachedTrends, cachedLateStats,
                       cachedOnTimeStats, cachedRecords>>
           thrownIn == {k \in 1..5 : Truthy(cached[k]) /\ JSONparseThrows(cached[k])}
           thrownAt == IF thrownIn = {} THEN 0
                       ELSE CHOOSE k \in thrownIn : \A j \in thrownIn : k <= j
           reached == [k \in 1..5 |-> thrownAt = 0 \/ k < thrownAt]
           sync == /\ thrownAt = 0
                   /\ Truthy(cachedRecords)
                   /\ SyncsDate(f, JSONparse(cachedRecords))
       IN /\ employeeData' =
                 IF reached[1] THEN Hydrate(cachedEmployees, employeeData) ELSE employeeData
          /\ attendanceTrendData' =
                 IF reached[2] THEN Hydrate(cachedTrends, attendanceTrendData)
                 ELSE attendanceTrendData
          /\ lateStatistics' =
                 IF reached[3] THEN Hydrate(cachedLateStats, lateStatistics)
                 ELSE lateStatistics
          /\ onTimeStatistics' =
                 IF reached[4] THEN Hydrate(cachedOnTimeStats, onTimeStatistics)
                 ELSE onTimeStatistics
          /\ attendanceRecords' =
                 IF reached[5] THEN Hydrate(cachedRecords, attendanceRecords)
                 ELSE attendanceRecords
          /\ filters' =
                 IF sync
                 THEN [filters EXCEPT !.date = newDate(JSONparse(cachedRecords)[1].date)]
                 ELSE filters
          /\ isInitialDateSynchronized' = (sync \/ isInitialDateSynchronized)
          /\ isLoading' =
                 IF thrownAt = 0 THEN LoadingAfterHydration(hasCachedDataBeenSet) ELSE TRUE
          /\ effectDeps' = Deps(f)
          /\ passes' = Append(passes,
                 [filters |-> f,
                  dateParam |-> dateParam(f),
                  travelMin |-> travelMin(f),
                  travelMax |-> travelMax(f),
                  attendanceCacheKey |-> attendanceCacheKey(f),
                  hasCachedDataBeenSet |-> hasCachedDataBeenSet,
                  fetchPromises |->
                      IssuedAfter(thrownAt,
                          <<FetchPromise("employees", getEmployees),
                            FetchPromise("trends", getAttendanceTrends),
                            FetchPromise("late", getLateStatistics),
                            FetchPromise("ontime", getOntimeStatistics),
                            FetchPromise("records", recordsRequest(f))>>)])
    /\ UNCHANGED <<localStorage, sessionStorage, userChanges, tzWest, viewVars>>

(***************************************************************************)
(* The completion handlers.  Each runs when its request settles; the one   *)
(* that settles last is followed by the continuation of the await, which   *)
(* clears the loading flag.                                                *)
(***************************************************************************)
\* variant of getEmployeesThen that caches the roster in the session store
getEmployeesThen_Session(p, employees) ==
    /\ Pending(p, "employees")
    /\ employeeData' = employees
    /\ sessionStorage' = setItem(sessionStorage, "employeeData", JSONstringify(employees))
    /\ passes' = Settled(p, "employees", "fulfilled")
    /\ isLoading' = AfterAwait(passes', p)
    /\ UNCHANGED <<attendanceTrendData, attendanceRecords, lateStatistics,
                   onTimeStatistics, filters, isInitialDateSynchronized,
                   localStorage, effectDeps, userChanges, tzWest, viewVars>>
\* variant of getEmployeesThen that publishes the roster without caching it
getEmployeesThen_NoCache(p, employees) ==
    /\ Pending(p, "employees")
    /\ employeeData' = employees
    /\ passes' = Settled(p, "employees", "fulfilled")
    /\ isLoading' = AfterAwait(passes', p)
    /\ UNCHANGED <<attendanceTrendData, attendanceRecords, lateStatistics,
                   onTimeStatistics, filters, isInitialDateSynchronized,
                   localStorage, sessionStorage, effectDeps, userChanges, tzWest,
                   viewVars>>

getEmployeesThen(p, employees) ==
    /\ Pending(p, "employees")
    /\ employeeData' = employees
    /\ localStorage' = setItem(localStorage, "employeeData", JSONstringify(employees))
    /\ passes' = Settled(p, "employees", "fulfilled")
    /\ isLoading' = AfterAwait(passes', p)
    /\ UNCHANGED <<attendanceTrendData, attendanceRecords, lateStatistics,
                   onTimeStatistics, filters, isInitialDateSynchronized,
                   sessionStorage, effectDeps, userChanges, tzWest, viewVars>>
\* variant of getAttendanceTrendsThen that also empties the records slot
getAttendanceTrendsThen_Reset(p, trends) ==
    /\ Pending(p, "trends")
    /\ attendanceTrendData' = trends
    /\ attendanceRecords' = <<>>
    /\ sessionStorage' = setItem(sessionStorage, "attendanceTrendData", JSONstringify(trends))
    /\ passes' = Settled(p, "trends", "fulfilled")
    /\ isLoading' = AfterAwait(passes', p)
    /\ UNCHANGED <<employeeData, lateStatistics,
                   onTimeStatistics, filters, isInitialDateSynchronized,
                   localStorage, effectDeps, userChanges, tzWest, viewVars>>

getAttendanceTrendsThen(p, trends) ==
    /\ Pending(p, "trends")
    /\ attendanceTrendData' = trends
    /\ sessionStorage' = setItem(sessionStorage, "attendanceTrendData", JSONstringify(trends))
    /\ passes' = Settled(p, "trends", "fulfilled")
    /\ isLoading' = AfterAwait(passes', p)
    /\ UNCHANGED <<employeeData, attendanceRecords, lateStatistics,
                   onTimeStatistics, filters, isInitialDateSynchronized,
                   localStorage, effectDeps, userChanges, tzWest, viewVars>>

getLateStatisticsThen(p, lateStats) ==
    /\ Pending(p, "late")
    /\ lateStatistics' = lateStats
    /\ sessionStorage' = setItem(sessionStorage, "lateStatistics", JSONstringify(lateStats))
    /\ passes' = Settled(p, "late", "fulfilled")
    /\ isLoading' = AfterAwait(passes', p)
    /\ UNCHANGED <<employeeData, attendanceTrendData, attendanceRecords,
                   onTimeStatistics, filters, isInitialDateSynchronized,
                   localStorage, effectDeps, userChanges, tzWest, viewVars>>

getOntimeStatisticsThen(p, onTimeStats) ==
    /\ Pending(p, "ontime")
    /\ onTimeStatistics' = onTimeStats
    /\ sessionStorage' = setItem(sessionStorage, "onTimeStatistics", JSONstringify(onTimeStats))
    /\ passes' = Settled(p, "ontime", "fulfilled")
    /\ isLoading' = AfterAwait(passes', p)
    /\ UNCHANGED <<employeeData, attendanceTrendData, attendanceRecords,
                   lateStatistics, filters, isInitialDateSynchronized,
                   localStorage, effectDeps, userChanges, tzWest, viewVars>>
\* variant of getAllAttendanceRecordsThen that drops the response of a run that
\* is no longer the latest one (cancellation)
getAllAttendanceRecordsThen_Latest(p, allRecords) ==
    /\ Pending(p, "records")
    /\ LET f == passes[p].filters
           latest == p = Len(passes)
           sync == latest /\ SyncsDate(f, allRecords)
           reset == /\ latest
                    /\ ~sync
                    /\ isInitialDateSynchronized
                    /\ Len(allRecords) = 0
                    /\ f.date # Undefined
       IN /\ attendanceRecords' = IF latest THEN allRecords ELSE attendanceRecords
          /\ sessionStorage' =
                 IF latest
                 THEN setItem(sessionStorage, passes[p].attendanceCacheKey,
                              JSONstringify(allRecords))
                 ELSE sessionStorage
          /\ filters' =
                 IF sync THEN [filters EXCEPT !.date = newDate(allRecords[1].date)]
                 ELSE filters
          /\ isInitialDateSynchronized' =
                 IF sync THEN TRUE
                 ELSE IF reset THEN FALSE
                 ELSE isInitialDateSynchronized
    /\ passes' = Settled(p, "records", "fulfilled")
    /\ isLoading' = AfterAwait(passes', p)
    /\ UNCHANGED <<employeeData, attendanceTrendData, lateStatistics,
                   onTimeStatistics, localStorage, effectDeps, userChanges, tzWest,
                   viewVars>>
\* variant of getAllAttendanceRecordsThen that caches the response under the key
\* of the filters at the time the response is handled
getAllAttendanceRecordsThen_CurrentKey(p, allRecords) ==
    /\ Pending(p, "records")
    /\ LET f == passes[p].filters
           sync == SyncsDate(f, allRecords)
           reset == /\ ~sync
                    /\ isInitialDateSynchronized
                    /\ Len(allRecords) = 0
                    /\ f.date # Undefined
       IN /\ attendanceRecords' = allRecords
          /\ sessionStorage' = setItem(sessionStorage, attendanceCacheKey(filters),
                                       JSONstringify(allRecords))
          /\ filters' =
                 IF sync THEN [filters EXCEPT !.date = newDate(allRecords[1].date)]
                 ELSE filters
          /\ isInitialDateSynchronized' =
                 IF sync THEN TRUE
                 ELSE IF reset THEN FALSE
                 ELSE isInitialDateSynchronized
    /\ passes' = Settled(p, "records", "fulfilled")
    /\ isLoading' = AfterAwait(passes', p)
    /\ UNCHANGED <<employeeData, attendanceTrendData, lateStatistics,
                   onTimeStatistics, localStorage, effectDeps, userChanges, tzWest,
                   viewVars>>

getAllAttendanceRecordsThen(p, allRecords) ==
    /\ Pending(p, "records")
    /\ LET f == passes[p].filters
           sync == SyncsDate(f, allRecords)
           reset == /\ ~sync
                    /\ isInitialDateSynchronized
                    /\ Len(allRecords) = 0
                    /\ f.date # Undefined
       IN /\ attendanceRecords' = allRecords
          /\ sessionStorage' = setItem(sessionStorage, passes[p].attendanceCacheKey,
                                       JSONstringify(allRecords))
          /\ filters' =
                 IF sync THEN [filters EXCEPT !.date = newDate(allRecords[1].date)]
                 ELSE filters
          /\ isInitialDateSynchronized' =
                 IF sync THEN TRUE
                 ELSE IF reset THEN FALSE
                 ELSE isInitialDateSynchronized
    /\ passes' = Settled(p, "records", "fulfilled")
    /\ isLoading' = AfterAwait(passes', p)
    /\ UNCHANGED <<employeeData, attendanceTrendData, lateStatistics,
                   onTimeStatistics, localStorage, effectDeps, userChanges, tzWest,
                   viewVars>>
\* variant of Catch that empties the cache entry of the roster when the roster
\* request fails
Catch_Evict(p, source) ==
    /\ Pending(p, source)
    /\ localStorage' =
           IF source = "employees"
           THEN setItem(localStorage, "employeeData", JSONstringify(<<>>))
           ELSE localStorage
    /\ passes' = Settled(p, source, "rejected")
    /\ isLoading' = AfterAwait(passes', p)
    /\ UNCHANGED <<employeeData, attendanceTrendData, attendanceRecords,
                   lateStatistics, onTimeStatistics, filters,
                   isInitialDateSynchronized, sessionStorage,
                   effectDeps, userChanges, tzWest, viewVars>>

\* variant of Catch that empties the roster when the roster request fails
Catch_Reset(p, source) ==
    /\ Pending(p, source)
    /\ employeeData' = IF source = "employees" THEN <<>> ELSE employeeData
    /\ passes' = Settled(p, source, "rejected")
    /\ isLoading' = AfterAwait(passes', p)
    /\ UNCHANGED <<attendanceTrendData, attendanceRecords,
                   lateStatistics, onTimeStatistics, filters,
                   isInitialDateSynchronized, localStorage, sessionStorage,
                   effectDeps, userChanges, tzWest, viewVars>>

\* variant of Catch that issues the failed request again
Catch_Retry(p, source) ==
    /\ Pending(p, source)
    /\ LET i == CHOOSE k \in 1..Len(passes[p].fetchPromises) :
                    /\ passes[p].fetchPromises[k].source = source
                    /\ passes[p].fetchPromises[k].state = "pending"
       IN passes' = [Settled(p, source, "rejected") EXCEPT ![p].fetchPromises =
                        Append(@, FetchPromise(source, passes[p].fetchPromises[i].request))]
    /\ isLoading' = isLoading
    /\ UNCHANGED <<employeeData, attendanceTrendData, attendanceRecords,
                   lateStatistics, onTimeStatistics, filters,
                   isInitialDateSynchronized, localStorage, sessionStorage,
                   effectDeps, userChanges, tzWest, viewVars>>

\* the catch handler of a request: logs the error and nothing else
Catch(p, source) ==
    /\ Pending(p, source)
    /\ passes' = Settled(p, source, "rejected")
    /\ isLoading' = AfterAwait(passes', p)
    /\ UNCHANGED <<employeeData, attendanceTrendData, attendanceRecords,
                   lateStatistics, onTimeStatistics, filters,
                   isInitialDateSynchronized, localStorage, sessionStorage,
                   effectDeps, userChanges, tzWest, viewVars>>

(***************************************************************************)
(* The user, through DashboardFilters.  The filter card is rendered only   *)
(* when the loading flag is false (Index returns LoadingState otherwise).  *)
(***************************************************************************)
\* the values the user picks in the orchestration model
UserGenders == {"all", "Female"}
UserDepartments == {"all", "Engineering"}
UserTravelDistances == {"all", "0-5"}
UserAttendanceStatuses == {"all", "Late"}
UserDates == {Undefined, DateObj(2, FALSE)}

FiltersRendered ==
    /\ ~isLoading
    /\ Len(passes) > 0
    /\ userChanges < MaxUserChanges
    /\ Cardinality(PendingRequests) <= MaxStale

UserSets(f) ==
    /\ FiltersRendered
    /\ f # filters
    /\ filters' = f
    /\ userChanges' = userChanges + 1
    /\ UNCHANGED <<isLoading, employeeData, attendanceTrendData, attendanceRecords,
                   lateStatistics, onTimeStatistics, isInitialDateSynchronized,
                   localStorage, sessionStorage, effectDeps, passes, tzWest, viewVars>>

SelectGender == \E v \in UserGenders : UserSets([filters EXCEPT !.gender = v])

SelectDepartment == \E v \in UserDepartments : UserSets([filters EXCEPT !.department = v])

SelectTravelDistance ==
    \E v \in UserTravelDistances : UserSets([filters EXCEPT !.travelDistance = v])

SelectAttendanceStatus ==
    \E v \in UserAttendanceStatuses : UserSets([filters EXCEPT !.attendanceStatus = v])

\* a click on a day of the calendar selects it; a click on the selected day
\* (the day filters.date falls on in the browser's time zone) deselects it
SelectDate ==
    \E date \in UserDates :
        /\ IF date = Undefined \/ filters.date = Undefined THEN TRUE
           ELSE LocalDay(date) # LocalDay(filters.date)
        /\ UserSets([filters EXCEPT !.date = date])

handleClearFilters == UserSets(DefaultFilters)

(***************************************************************************)
(* The orchestration: mount, filter changes, responses in any order.       *)
(***************************************************************************)
\* runs of the effect may overlap: one starts while at most MaxStale requests of
\* earlier runs are in flight
Next ==
    \/ /\ Len(passes) < MaxPasses
       /\ Cardinality(PendingRequests) <= MaxStale
       /\ fetchData
    \/ \E p \in 1..MaxPasses :
          \/ \E employees \in EmployeePayloads : getEmployeesThen(p, employees)
          \/ \E trends \in TrendPayloads : getAttendanceTrendsThen(p, trends)
          \/ \E lateStats \in LatePayloads : getLateStatisticsThen(p, lateStats)
          \/ \E onTimeStats \in OnTimePayloads : getOntimeStatisticsThen(p, onTimeStats)
          \/ /\ Pending(p, "records")
             /\ \E allRecords \in RecordsPayloads(passes[p].fetchPromises[5].request) :
                   getAllAttendanceRecordsThen(p, allRecords)
          \/ /\ Cardinality(FailedRequests) < MaxFailures
             /\ \E source \in Sources : Catch(p, source)
    \/ SelectGender
    \/ SelectDepartment
    \/ SelectTravelDistance
    \/ SelectAttendanceStatus
    \/ SelectDate
    \/ handleClearFilters

Spec == Init /\ [][Next]_vars

\* runs of the effect one after the other: a run starts once every request of
\* the earlier runs has settled
NextSeq ==
    \/ /\ Len(passes) < MaxSeqPasses
       /\ PendingRequests = {}
       /\ fetchData
    \/ \E p \in 1..MaxSeqPasses :
          \/ \E employees \in EmployeePayloads : getEmployeesThen(p, employees)
          \/ \E trends \in TrendPayloads : getAttendanceTrendsThen(p, trends)
          \/ \E lateStats \in LatePayloads : getLateStatisticsThen(p, lateStats)
          \/ \E onTimeStats \in OnTimePayloads : getOntimeStatisticsThen(p, onTimeStats)
          \/ /\ Pending(p, "records")
             /\ \E allRecords \in RecordsPayloads(passes[p].fetchPromises[5].request) :
                   getAllAttendanceRecordsThen(p, allRecords)
          \/ /\ Cardinality(FailedRequests) < MaxFailures
             /\ \E source \in Sources : Catch(p, source)
    \/ SelectGender
    \/ SelectDepartment
    \/ SelectTravelDistance
    \/ SelectAttendanceStatus
    \/ SelectDate
    \/ handleClearFilters

SpecSeq == Init /\ [][NextSeq]_vars

(***************************************************************************)
(* The request and the cache key of one run of the effect, as functions of *)
(* the filters: every combination the filter UI offers, with a date picked *)
(* in the calendar or none, and one run of the effect on it.               *)
(***************************************************************************)
CalendarDates == {Undefined, DateObj(2, FALSE), DateObj(3, FALSE)}

UIFilters ==
    [gender : genders, department : departments, travelDistance : travelDistances,
     attendanceStatus : attendanceStatuses, date : CalendarDates]

InitFilters ==
    /\ isLoading = TRUE
    /\ employeeData = <<>>
    /\ attendanceTrendData = <<>>
    /\ attendanceRecords = <<>>
    /\ lateStatistics = Null
    /\ onTimeStatistics = Null
    /\ filters \in UIFilters
    /\ isInitialDateSynchronized = FALSE
    /\ localStorage = EmptyStore
    /\ sessionStorage = EmptyStore
    /\ effectDeps = <<>>
    /\ passes = <<>>
    /\ userChanges = 0
    /\ tzWest \in BOOLEAN
    /\ filteredEmployeeData = <<>>
    /\ filteredAttendanceRecords = <<>>
    /\ rendered = Null
    /\ ComponentsInit

NextFilters == fetchData

SpecFilters == InitFilters /\ [][NextFilters]_vars

(***************************************************************************)
(* The page below the fetch: the client-side filtering effects, the chart  *)
(* data computed from the filtered roster, and the render of Index.        *)
(***************************************************************************)
\* ToNumber of a tagged value, as the relational operators apply it
ToNumber(v) ==
    CASE v.type = "number" -> v
      [] v.type = "null" -> Num(0)
      [] OTHER -> NaN

\* a >= b and a <= b on tagged values: false when either side is NaN
GreaterEq(a, b) ==
    LET x == ToNumber(a)
        y == ToNumber(b)
    IN x # NaN /\ y # NaN /\ x.value >= y.value

LessEq(a, b) ==
    LET x == ToNumber(a)
        y == ToNumber(b)
    IN x # NaN /\ y # NaN /\ x.value <= y.value

\* Number(v) of a string of digits (Str) or of undefined
Number(v) ==
    IF v.type # "string" THEN NaN
    ELSE IF v.value = "" THEN Num(0)
    ELSE IF DigitPrefix(v.value) = Len(v.value) THEN Num(DigitsToNat(v.value, 0))
    ELSE NaN

\* a plain object with string keys: its entries in insertion order, the order
\* Object.keys lists keys that are not integers in
EmptyObject == <<>>

ObjectKeys(obj) == [i \in 1..Len(obj) |-> obj[i].key]

HasKey(obj, key) == \E i \in 1..Len(obj) : obj[i].key = key

\* obj[key], undefined when the key is absent
Get(obj, key) ==
    IF HasKey(obj, key)
    THEN Num(obj[CHOOSE i \in 1..Len(obj) : obj[i].key = key].value)
    ELSE Undefined

\* obj[key] = value
Put(obj, key, value) ==
    IF HasKey(obj, key)
    THEN [i \in 1..Len(obj) |-> IF obj[i].key = key THEN [obj[i] EXCEPT !.value = value]
                                ELSE obj[i]]
    ELSE Append(obj, [key |-> key, value |-> value])

\* the result of the employee data filtering effect; array.filter is SelectSeq
FilteredEmployees(employees, f) ==
    IF Len(employees) = 0 THEN <<>>
    ELSE LET byGender ==
                 IF f.gender # "all"
                 THEN SelectSeq(employees, LAMBDA emp : emp.gender = f.gender)
                 ELSE employees
             byDepartment ==
                 IF f.department # "all"
                 THEN SelectSeq(byGender, LAMBDA emp : emp.department = f.department)
                 ELSE byGender
             range == split(f.travelDistance, "-")
             min == Number(At(range, 1))
             max == Number(At(range, 2))
         IN IF f.travelDistance # "all"
            THEN SelectSeq(byDepartment,
                           LAMBDA emp : GreaterEq(emp.travelKm, min) /\ LessEq(emp.travelKm, max))
            ELSE byDepartment

\* useEffect on [filters.gender, filters.department, filters.travelDistance,
\* employeeData]: a run that changes the filtered roster
EmployeeDataFilteringEffect ==
    /\ filteredEmployeeData # FilteredEmployees(employeeData, filters)
    /\ filteredEmployeeData' = FilteredEmployees(employeeData, filters)
    /\ UNCHANGED <<isLoading, employeeData, attendanceTrendData, attendanceRecords,
                   lateStatistics, onTimeStatistics, filters, isInitialDateSynchronized,
                   localStorage, sessionStorage, effectDeps, passes, userChanges, tzWest,
                   filteredAttendanceRecords, rendered, componentVars>>

\* useEffect on [attendanceRecords]: a run that changes the records of the grid
AttendanceRecordsFilteringEffect ==
    /\ filteredAttendanceRecords # attendanceRecords
    /\ filteredAttendanceRecords' = attendanceRecords
    /\ UNCHANGED <<isLoading, employeeData, attendanceTrendData, attendanceRecords,
                   lateStatistics, onTimeStatistics, filters, isInitialDateSynchronized,
                   localStorage, sessionStorage, effectDeps, passes, userChanges, tzWest,
                   filteredEmployeeData, rendered, componentVars>>

\* variant of CountDepartments that notes a department without counting
RECURSIVE CountDepartments_Seen(_, _)
CountDepartments_Seen(employees, deptCount) ==
    IF employees = <<>> THEN deptCount
    ELSE CountDepartments_Seen(Tail(employees),
                               Put(deptCount, Head(employees).department, 1))

\* the forEach of getDepartmentData
RECURSIVE CountDepartments(_, _)
CountDepartments(employees, deptCount) ==
    IF employees = <<>> THEN deptCount
    ELSE LET emp == Head(employees)
         IN CountDepartments(Tail(employees),
                Put(deptCount, emp.department,
                    Or(Get(deptCount, emp.department), Num(0)).value + 1))
\* variant of getDepartmentData built on CountDepartments_Seen
getDepartmentData_Seen ==
    LET deptCount == CountDepartments_Seen(filteredEmployeeData, EmptyObject)
    IN [i \in 1..Len(deptCount) |->
           [name |-> ObjectKeys(deptCount)[i],
            value |-> Get(deptCount, ObjectKeys(deptCount)[i]).value]]

getDepartmentData ==
    LET deptCount == CountDepartments(filteredEmployeeData, EmptyObject)
    IN [i \in 1..Len(deptCount) |->
           [name |-> ObjectKeys(deptCount)[i],
            value |-> Get(deptCount, ObjectKeys(deptCount)[i]).value]]

\* variant of CountGenders that counts every gender it meets
RECURSIVE CountGenders_Any(_, _)
CountGenders_Any(employees, genderCount) ==
    IF employees = <<>> THEN genderCount
    ELSE LET emp == Head(employees)
         IN CountGenders_Any(Tail(employees),
                Put(genderCount, emp.gender,
                    Or(Get(genderCount, emp.gender), Num(0)).value + 1))

\* the forEach of getGenderData
RECURSIVE CountGenders(_, _)
CountGenders(employees, genderCount) ==
    IF employees = <<>> THEN genderCount
    ELSE LET emp == Head(employees)
         IN CountGenders(Tail(employees),
                IF emp.gender = "Male" \/ emp.gender = "Female"
                THEN Put(genderCount, emp.gender, Get(genderCount, emp.gender).value + 1)
                ELSE genderCount)
\* variant of getGenderData built on CountGenders_Any
getGenderData_Any ==
    LET genderCount ==
            CountGenders_Any(filteredEmployeeData,
                             <<[key |-> "Male", value |-> 0], [key |-> "Female", value |-> 0]>>)
    IN [i \in 1..Len(genderCount) |->
           [name |-> ObjectKeys(genderCount)[i],
            value |-> Get(genderCount, ObjectKeys(genderCount)[i]).value]]

getGenderData ==
    LET genderCount ==
            CountGenders(filteredEmployeeData,
                         <<[key |-> "Male", value |-> 0], [key |-> "Female", value |-> 0]>>)
    IN [i \in 1..Len(genderCount) |->
           [name |-> ObjectKeys(genderCount)[i],
            value |-> Get(genderCount, ObjectKeys(genderCount)[i]).value]]

\* variant of TravelRange with open upper bounds (km < 5, km < 10, ...)
TravelRange_Open(km) ==
    CASE km.value < 5 -> 1
      [] km.value >= 5 /\ km.value < 10 -> 2
      [] km.value >= 10 /\ km.value < 15 -> 3
      [] km.value >= 15 /\ km.value < 20 -> 4
      [] OTHER -> 5

\* the index in travelRanges of the range getTravelData counts a km value in
TravelRange(km) ==
    IF km.value <= 5 THEN 1
    ELSE IF km.value <= 10 THEN 2
    ELSE IF km.value <= 15 THEN 3
    ELSE IF km.value <= 20 THEN 4
    ELSE 5

\* the forEach of getTravelData
RECURSIVE CountTravel(_, _)
CountTravel(employees, travelRanges) ==
    IF employees = <<>> THEN travelRanges
    ELSE LET km == Head(employees).travelKm
         IN CountTravel(Tail(employees),
                IF km # Undefined /\ km # Null
                THEN [travelRanges EXCEPT ![TravelRange(km)].count = @ + 1]
                ELSE travelRanges)

getTravelData ==
    CountTravel(filteredEmployeeData,
                <<[range |-> "0-5", count |-> 0], [range |-> "5-10", count |-> 0],
                  [range |-> "10-15", count |-> 0], [range |-> "15-20", count |-> 0],
                  [range |-> "20+", count |-> 0]>>)
\* variant of hasData that does not look at the two statistics
hasData_NoStats ==
    \/ Len(filteredEmployeeData) > 0
    \/ Len(attendanceTrendData) > 0
    \/ Len(filteredAttendanceRecords) > 0

hasData ==
    \/ Len(filteredEmployeeData) > 0
    \/ Len(attendanceTrendData) > 0
    \/ Len(filteredAttendanceRecords) > 0
    \/ lateStatistics # Null
    \/ onTimeStatistics # Null

\* what Index returns: the loading placeholder, the no-data message, or the
\* dashboard with the statistics cards, the grid and the three demographic charts
Page ==
    IF isLoading THEN [page |-> "LoadingState"]
    ELSE IF ~hasData THEN [page |-> "NoData", employees |-> Len(filteredEmployeeData)]
    ELSE [page |-> "Dashboard",
          employees |-> Len(filteredEmployeeData),
          data |-> filteredEmployeeData,
          grid |-> filteredAttendanceRecords,
          departmentData |-> getDepartmentData,
          genderData |-> getGenderData,
          travelData |-> getTravelData]

\* a render of Index that changes the page
Render ==
    /\ rendered # Page
    /\ rendered' = Page
    /\ UNCHANGED <<isLoading, employeeData, attendanceTrendData, attendanceRecords,
                   lateStatistics, onTimeStatistics, filters, isInitialDateSynchronized,
                   localStorage, sessionStorage, effectDeps, passes, userChanges, tzWest,
                   filteredEmployeeData, filteredAttendanceRecords, componentVars>>

(***************************************************************************)
(* The page on a loaded roster: every roster of up to MaxRoster employees  *)
(* of a pool that has each gender, two departments seen more than once,    *)
(* the km values on both sides of every range bound and a missing km, and  *)
(* the roster of five of the histogram example; every client-side filter.  *)
(***************************************************************************)
EmployeePool ==
    {Employee(1, "Male", "Engineering", Num(5)),
     Employee(2, "Female", "Finance", Num(10)),
     Employee(3, "Other", "Engineering", Num(15)),
     Employee(4, "Male", "Finance", Num(20)),
     Employee(5, "Female", "Engineering", Num(25)),
     Employee(6, "Male", "Sales", Null)}

ExampleRoster ==
    [i \in 1..5 |-> CHOOSE emp \in EmployeePool : emp.id = i]

Rosters ==
    {ExampleRoster} \cup
    UNION {{roster \in [1..n -> EmployeePool] :
               \A i \in 1..n : \A j \in 1..n : roster[i] = roster[j] => i = j} :
           n \in 0..MaxRoster}

ViewFilters ==
    [gender : genders, department : {"all", "Engineering", "Finance"},
     travelDistance : travelDistances, attendanceStatus : {"all"}, date : {Undefined}]

InitView ==
    /\ isLoading = FALSE
    /\ employeeData \in Rosters
    /\ attendanceTrendData = <<>>
    /\ attendanceRecords \in {<<>>, CachedRecords}
    /\ lateStatistics = Null
    /\ onTimeStatistics = Null
    /\ filters \in ViewFilters
    /\ isInitialDateSynchronized = FALSE
    /\ localStorage = EmptyStore
    /\ sessionStorage = EmptyStore
    /\ effectDeps = Deps(filters)
    /\ passes = <<>>
    /\ userChanges = 0
    /\ tzWest \in BOOLEAN
    /\ filteredEmployeeData = <<>>
    /\ filteredAttendanceRecords = <<>>
    /\ rendered = Null
    /\ ComponentsInit

NextView ==
    \/ EmployeeDataFilteringEffect
    \/ AttendanceRecordsFilteringEffect
    \/ Render

SpecView == InitView /\ [][NextView]_vars

(***************************************************************************)
(* Properties of the request and of the cache key (SpecFilters).           *)
(***************************************************************************)
\* what the claims read off the filter UI: the bounds each bucket "a-b" names and
\* the ISO date of each calendar day
BucketBounds ==
    [b \in travelDistances \ {"all"} |->
        CASE b = "0-5" -> [a |-> 0, b |-> 5]
          [] b = "5-10" -> [a |-> 5, b |-> 10]
          [] b = "10-15" -> [a |-> 10, b |-> 15]
          [] b = "15-20" -> [a |-> 15, b |-> 20]
          [] b = "20-100" -> [a |-> 20, b |-> 100]]

IsoDate == [day \in {2, 3} |-> IF day = 2 THEN "2024-03-01" ELSE "2024-03-02"]

\* the filters of the end-to-end scenario of the specification
ScenarioFilters ==
    [gender |-> "Female", department |-> "Engineering", travelDistance |-> "0-5",
     attendanceStatus |-> "all", date |-> DateObj(2, FALSE)]

RecordsParams(pass) == pass.fetchPromises[5].request.params

KnownParams == {"date_filter", "gender_filter", "travelDistanceMin", "travelDistanceMax"}

\* the request constrains the records to a value of a filter
CarriesConstraint(params, value) ==
    \E k \in DOMAIN params \ KnownParams : params[k] = Str(value)

\* C7 (as claimed): the attendance-records request carries a department
\* constraint whenever the department filter is not "all" and an
\* attendance-status constraint whenever the status filter is not "all".
C7_Original ==
    \A p \in 1..Len(passes) :
        LET f == passes[p].filters
            params == RecordsParams(passes[p])
        IN /\ f.department # "all" => CarriesConstraint(params, f.department)
           /\ f.attendanceStatus # "all" => CarriesConstraint(params, f.attendanceStatus)

\* the cache key the specification documents for filters f
DocumentedKey(f) ==
    "attendanceRecords_"
        \o (IF f.date = Undefined THEN "latest" ELSE IsoDate[f.date.day])
        \o "_" \o f.gender \o "_" \o f.department \o "_" \o f.attendanceStatus
        \o "_" \o (IF f.travelDistance = "all" THEN "any"
                   ELSE ToString(BucketBounds[f.travelDistance].a))
        \o "_" \o (IF f.travelDistance \in {"all", "20-100"} THEN "any"
                   ELSE ToString(BucketBounds[f.travelDistance].b))

\* C8 (as claimed): the cache key is attendanceRecords_{date or 'latest'}_
\* {gender}_{department}_{status}_{travelMin or 'any'}_{travelMax or 'any'},
\* the travelMin segment being 'any' only when travel-min is absent; the
\* scenario filters give attendanceRecords_2024-03-01_Female_Engineering_all_0_5.
C8_Original ==
    \A p \in 1..Len(passes) :
        LET f == passes[p].filters
        IN /\ passes[p].attendanceCacheKey = DocumentedKey(f)
           /\ f = ScenarioFilters =>
                 passes[p].attendanceCacheKey =
                     "attendanceRecords_2024-03-01_Female_Engineering_all_0_5"

\* C9: the attendance-records request includes date_filter exactly when a date
\* is set, gender_filter exactly when gender is not "all", travelDistanceMin and
\* travelDistanceMax exactly when the bound is defined, a lower bound of 0
\* included: bucket "0-5" sends travelDistanceMin=0 and travelDistanceMax=5.
C9_RequestParams ==
    \A p \in 1..Len(passes) :
        LET f == passes[p].filters
            params == RecordsParams(passes[p])
            hasMin == f.travelDistance # "all"
            hasMax == f.travelDistance \notin {"all", "20-100"}
        IN /\ "date_filter" \in DOMAIN params <=> f.date # Undefined
           /\ f.date # Undefined =>
                 params["date_filter"] = Str(IsoDate[f.date.day])
           /\ "gender_filter" \in DOMAIN params <=> f.gender # "all"
           /\ f.gender # "all" => params["gender_filter"] = Str(f.gender)
           /\ "travelDistanceMin" \in DOMAIN params <=> hasMin
           /\ hasMin => params["travelDistanceMin"] = Num(BucketBounds[f.travelDistance].a)
           /\ "travelDistanceMax" \in DOMAIN params <=> hasMax
           /\ hasMax => params["travelDistanceMax"] = Num(BucketBounds[f.travelDistance].b)

\* C9 witness: the scenario filters have run and the request carries
\* gender_filter=Female, travelDistanceMin=0, travelDistanceMax=5 and the date
C9_Witness ==
    \E p \in 1..Len(passes) :
        /\ passes[p].filters = ScenarioFilters
        /\ RecordsParams(passes[p]) =
              [k \in KnownParams |->
                  CASE k = "date_filter" -> Str("2024-03-01")
                    [] k = "gender_filter" -> Str("Female")
                    [] k = "travelDistanceMin" -> Num(0)
                    [] k = "travelDistanceMax" -> Num(5)]

\* C10: for every bucket "a-b" of the filter UI the run derives travelMin = a
\* and travelMax = b, except that an upper bound of 100 gives an absent
\* travelMax; with travelDistance "all" both bounds are absent.
C10_TravelBounds ==
    \A p \in 1..Len(passes) :
        LET f == passes[p].filters
        IN IF f.travelDistance = "all"
           THEN passes[p].travelMin = Undefined /\ passes[p].travelMax = Undefined
           ELSE LET bounds == BucketBounds[f.travelDistance]
                IN /\ passes[p].travelMin = Num(bounds.a)
                   /\ passes[p].travelMax =
                         IF bounds.b = 100 THEN Undefined ELSE Num(bounds.b)

\* C10 witness: a run on bucket "20-100" with travelMin 20 and no travelMax
C10_Witness ==
    \E p \in 1..Len(passes) :
        /\ passes[p].filters.travelDistance = "20-100"
        /\ passes[p].travelMin = Num(20)
        /\ passes[p].travelMax = Undefined

(***************************************************************************)
(* Properties of the orchestration (Spec).                                 *)
(***************************************************************************)
\* the live-state slot of a source
Slot(source) ==
    CASE source = "employees" -> employeeData
      [] source = "trends" -> attendanceTrendData
      [] source = "late" -> lateStatistics
      [] source = "ontime" -> onTimeStatistics
      [] source = "records" -> attendanceRecords

\* the store the specification assigns to a source, and the other one
Store(source) == IF source = "employees" THEN localStorage ELSE sessionStorage

OtherStore(source) == IF source = "employees" THEN sessionStorage ELSE localStorage

\* the cache key the specification assigns to a source in a pass
EntryKey(pass, source) ==
    CASE source = "employees" -> "employeeData"
      [] source = "trends" -> "attendanceTrendData"
      [] source = "late" -> "lateStatistics"
      [] source = "ontime" -> "onTimeStatistics"
      [] source = "records" -> pass.attendanceCacheKey

\* the payloads the backend may answer a request of a source with
ResponsePayloads(fp) ==
    CASE fp.source = "employees" -> EmployeePayloads
      [] fp.source = "trends" -> TrendPayloads
      [] fp.source = "late" -> LatePayloads
      [] fp.source = "ontime" -> OnTimePayloads
      [] fp.source = "records" -> RecordsPayloads(fp.request)

\* this step starts a pass
StartsPass == Len(passes') = Len(passes) + 1

\* this step settles request i of pass p as state
Settles(p, i, state) ==
    /\ passes[p].fetchPromises[i].state = "pending"
    /\ passes'[p].fetchPromises[i].state = state

\* this step settles the last pending request of pass p
SettlesLast(p) == ~AllSettled(passes[p]) /\ AllSettled(passes'[p])

\* the success handler of source s of pass p has published the response: the
\* slot holds a payload of the backend and the entry of s, in its own store
\* only, holds the same payload
Published(p, i) ==
    LET s == passes[p].fetchPromises[i].source
        key == EntryKey(passes[p], s)
    IN /\ Slot(s)' \in ResponsePayloads(passes[p].fetchPromises[i])
       /\ key \in DOMAIN Store(s)'
       /\ Store(s)'[key].text = Slot(s)'
       /\ \A k \in DOMAIN Store(s)' \ {key} :
             k \in DOMAIN Store(s) /\ Store(s)'[k] = Store(s)[k]
       /\ OtherStore(s)' = OtherStore(s)

\* C1 (as claimed): there is no reachable state in which a pass has started, one
\* of its five requests is still pending, and the loading flag is false.
C1_Original ==
    \A p \in 1..Len(passes) : ~AllSettled(passes[p]) => isLoading

\* C1 (amended): the loading flag turns false only when a pass has just found a
\* cache entry during hydration or when the five requests of a pass have just
\* all settled; the final clear of a pass never precedes its last settlement.
C1_ClearedOnlyByHitOrAllSettled ==
    [][(isLoading /\ ~isLoading') =>
          \/ StartsPass /\ passes'[Len(passes')].hasCachedDataBeenSet
          \/ \E p \in 1..Len(passes) : SettlesLast(p)]_vars

\* C1 witness: a pass that found no cache entry has settled all five requests
\* and the flag is false
C1_Witness ==
    \E p \in 1..Len(passes) :
        /\ ~passes[p].hasCachedDataBeenSet
        /\ AllSettled(passes[p])
        /\ ~isLoading

\* C2: when the last of the five requests of a pass settles, in any order and
\* with any mix of successes and failures, the loading flag is false; it turns
\* true again only when a changed filter state starts a new pass.
C2_ClearedWhenAllSettled ==
    [][/\ \A p \in 1..Len(passes) : SettlesLast(p) => ~isLoading'
       /\ (~isLoading /\ isLoading') =>
             /\ StartsPass
             /\ effectDeps # Deps(filters)]_vars

\* C2 witness: a pass has settled with both a failure and successes, the last
\* request to be issued among the successes, and the flag is false
C2_Witness ==
    \E p \in 1..Len(passes) :
        /\ AllSettled(passes[p])
        /\ \E i \in 1..5 : passes[p].fetchPromises[i].state = "rejected"
        /\ \E i \in 1..5 : passes[p].fetchPromises[i].state = "fulfilled"
        /\ ~isLoading

\* C3: a pass that starts with at least one of its five cache entries present
\* has, when hydration is over and before any of its responses is handled,
\* every slot with an entry holding the cached payload and the flag false.
C3_CacheFirstHydration ==
    [][StartsPass =>
          LET pass == passes'[Len(passes')]
              hits == {s \in Sources : EntryKey(pass, s) \in DOMAIN Store(s)}
          IN hits # {} =>
                /\ \A s \in hits : Slot(s)' = Store(s)[EntryKey(pass, s)].text
                /\ ~isLoading'
                /\ \A i \in 1..5 : pass.fetchPromises[i].state = "pending"]_vars

\* C3 witness: the roster entry of the durable store was hydrated, the flag is
\* false and all five requests of the pass are pending
C3_Witness ==
    /\ Len(passes) = 1
    /\ "employeeData" \in DOMAIN localStorage
    /\ employeeData = CachedRoster
    /\ ~isLoading
    /\ \A i \in 1..5 : passes[1].fetchPromises[i].state = "pending"

\* C4: every successful response replaces its own slot with the response payload
\* and overwrites its cache entry with the same payload: the roster entry in the
\* durable store only, the other four in the session store only.
C4_SuccessPublishes ==
    [][\A p \in 1..Len(passes) : \A i \in 1..5 :
          Settles(p, i, "fulfilled") => Published(p, i)]_vars

\* C4 witness: a pass whose five requests all succeeded; the roster is in the
\* durable store and the records under the key of the pass in the session store
C4_Witness ==
    \E p \in 1..Len(passes) :
        /\ \A i \in 1..5 : passes[p].fetchPromises[i].state = "fulfilled"
        /\ "employeeData" \in DOMAIN localStorage
        /\ localStorage["employeeData"].text = employeeData
        /\ employeeData \in EmployeePayloads
        /\ passes[p].attendanceCacheKey \in DOMAIN sessionStorage
        /\ "employeeData" \notin DOMAIN sessionStorage

\* C5: a failed request leaves its slot and its cache entry (every slot and both
\* stores) as they were; the other requests of the pass are still published on
\* success, and the pass clears the flag once all five have settled.
C5_FailureIsolated ==
    [][\A p \in 1..Len(passes) : \A i \in 1..5 :
          /\ Settles(p, i, "rejected") =>
                /\ \A s \in Sources : Slot(s)' = Slot(s)
                /\ localStorage' = localStorage
                /\ sessionStorage' = sessionStorage
                /\ AllSettled(passes'[p]) => ~isLoading'
          /\ (/\ Settles(p, i, "fulfilled")
              /\ \E j \in 1..5 : passes[p].fetchPromises[j].state = "rejected") =>
                /\ Published(p, i)
                /\ AllSettled(passes'[p]) => ~isLoading']_vars

\* C5 witness: the roster request of a pass failed after hydration, the other
\* four succeeded; the roster slot and entry still hold the cached roster, the
\* trend slot holds the response and the flag is false
C5_Witness ==
    \E p \in 1..Len(passes) :
        /\ passes[p].fetchPromises[1].state = "rejected"
        /\ \A i \in 2..5 : passes[p].fetchPromises[i].state = "fulfilled"
        /\ employeeData = CachedRoster
        /\ localStorage["employeeData"].text = CachedRoster
        /\ attendanceTrendData \in TrendPayloads
        /\ ~isLoading

\* C6: every pass issues exactly one request to each of the five sources,
\* cache hit or not; the requests of a pass never change after its start (a
\* failed request is not re-issued), and a pass starts only on changed filters.
C6_OneRequestPerSource ==
    [][/\ \A p \in 1..Len(passes') : \A s \in Sources :
             Cardinality({i \in 1..Len(passes'[p].fetchPromises) :
                             passes'[p].fetchPromises[i].source = s}) = 1
       /\ \A p \in 1..Len(passes) :
             /\ Len(passes'[p].fetchPromises) = Len(passes[p].fetchPromises)
             /\ \A i \in 1..Len(passes[p].fetchPromises) :
                   passes'[p].fetchPromises[i].request = passes[p].fetchPromises[i].request
       /\ StartsPass => effectDeps # Deps(filters)]_vars

\* C6 witness: a pass that hit the cache has settled with a failed request and
\* still has its five promises; a later pass has issued its own five
C6_Witness ==
    \E p \in 1..Len(passes) :
        /\ passes[p].hasCachedDataBeenSet
        /\ AllSettled(passes[p])
        /\ \E i \in 1..5 : passes[p].fetchPromises[i].state = "rejected"
        /\ Len(passes[p].fetchPromises) = 5
        /\ p < Len(passes)

(***************************************************************************)
(* The cache key across the runs of one session (SpecSeq, SpecFilters).    *)
(***************************************************************************)
\* the six values the key of a run is built from
KeyInputs(pass) ==
    <<pass.dateParam, pass.filters.gender, pass.filters.department,
      pass.filters.attendanceStatus, pass.travelMin, pass.travelMax>>

\* C11: two runs of the effect with the same date parameter, gender,
\* department, attendance status, travelMin and travelMax compute the same
\* attendance-records cache key, whatever the caches, the live state and the
\* sync flag were when each of them ran.
C11_KeyDeterministic ==
    \A p \in 1..Len(passes) : \A q \in 1..Len(passes) :
        KeyInputs(passes[p]) = KeyInputs(passes[q])
            => passes[p].attendanceCacheKey = passes[q].attendanceCacheKey

\* the first and the third run have the same six inputs; the first ran on empty
\* live state with the flag unset, the third with records loaded and the flag set
C11_Witness ==
    /\ Len(passes) = 3
    /\ KeyInputs(passes[1]) = KeyInputs(passes[3])
    /\ isInitialDateSynchronized
    /\ attendanceRecords # <<>>
    /\ DOMAIN sessionStorage # {}
    /\ passes[1].attendanceCacheKey = passes[3].attendanceCacheKey

\* the filter combination a key stands for, read back from its segments
KeyDate(segment) ==
    IF segment = "latest" THEN Undefined
    ELSE DateObj(CHOOSE day \in DOMAIN IsoDate : IsoDate[day] = segment, FALSE)

KeyBucket(min, max) ==
    CASE min = "any" /\ max = "any" -> "all"
      [] min = "any" /\ max # "any" -> "0-" \o max
      [] min # "any" /\ max = "any" -> min \o "-100"
      [] OTHER -> min \o "-" \o max

KeyCombination(key) ==
    LET segments == split(key, "_")
    IN IF Len(segments) # 7
          \/ (segments[2] # "latest" /\ \A day \in DOMAIN IsoDate : IsoDate[day] # segments[2])
       THEN Null
       ELSE [gender |-> segments[3], department |-> segments[4],
             travelDistance |-> KeyBucket(segments[6], segments[7]),
             attendanceStatus |-> segments[5], date |-> KeyDate(segments[2])]

\* C12: distinct filter combinations of the filter UI (a calendar date or
\* none, gender, department, travel-distance bucket, attendance status) have
\* distinct attendance-records cache keys: the combination can be read back
\* from the key of the run of the effect on it.
C12_KeysDistinct ==
    \A p \in 1..Len(passes) :
        KeyCombination(passes[p].attendanceCacheKey) = passes[p].filters

\* bucket 0-5, whose travelMin 0 is written 'any' in the key, next to the key of
\* the same combination with no travel filter
C12_Witness ==
    /\ Len(passes) = 1
    /\ passes[1].filters.travelDistance = "0-5"
    /\ passes[1].filters.department = "Human Resources"
    /\ passes[1].filters.date # Undefined
    /\ KeyCombination(passes[1].attendanceCacheKey) = passes[1].filters
    /\ passes[1].attendanceCacheKey
           # attendanceCacheKey([passes[1].filters EXCEPT !.travelDistance = "all"])

(***************************************************************************)
(* Auto-sync of the date filter (Spec).  FilterState.date is a calendar    *)
(* date: the day the page shows for it, requests records of and builds the *)
(* cache key from, which is format(filters.date, 'yyyy-MM-dd').            *)
(***************************************************************************)
\* the record set opens with a dated record
DatedFirst(records) == Len(records) > 0 /\ records[1].date # ""

\* FilterState.date is the calendar date written by the ISO string
DateIs(date, iso) == date # Undefined /\ format(date) = iso

\* FilterState.date was set by auto-sync and not by the calendar
AutoSynced(date) == date # Undefined /\ date.utc

\* this step handles the records response of pass p
RecordsArrive(p) == Settles(p, 5, "fulfilled")

\* C13 (as claimed): when the records response of a run that closed over an
\* absent date arrives non-empty with a dated first record while the flag is
\* unset, FilterState.date becomes that record's date and the flag becomes
\* synced; while the flag stays synced no records response changes
\* FilterState.date.
C13_Original ==
    [][\A p \in 1..Len(passes) :
          RecordsArrive(p) =>
              /\ (/\ passes[p].filters.date = Undefined
                  /\ ~isInitialDateSynchronized
                  /\ DatedFirst(attendanceRecords'))
                     => /\ DateIs(filters'.date, attendanceRecords'[1].date)
                        /\ isInitialDateSynchronized'
              /\ (isInitialDateSynchronized /\ isInitialDateSynchronized')
                     => filters'.date = filters.date]_vars

\* C14 (as claimed): once synced, an empty records response of a run whose
\* date is set resets the flag, and a non-empty records response handled after
\* that reset, with the auto-synced date still in place, makes FilterState.date
\* the date of its first record and sets the flag again.
C14_Original ==
    [][\A p \in 1..Len(passes) :
          RecordsArrive(p) =>
              /\ (/\ isInitialDateSynchronized
                  /\ passes[p].filters.date # Undefined
                  /\ attendanceRecords' = <<>>)
                     => ~isInitialDateSynchronized'
              /\ (/\ ~isInitialDateSynchronized
                  /\ AutoSynced(filters.date)
                  /\ DatedFirst(attendanceRecords'))
                     => /\ DateIs(filters'.date, attendanceRecords'[1].date)
                        /\ isInitialDateSynchronized']_vars

\* C15 (as claimed): a run that starts with the date absent and the flag unset
\* on a cached record set, under its own key, that opens with a dated record
\* makes FilterState.date that date and sets the flag; auto-sync changes
\* FilterState.date only in a step that takes the flag from unset to synced,
\* so with the flag synced neither a records response nor the start of a later
\* run (the date cleared by the user or not) changes it.
C15_Original ==
    [][/\ StartsPass =>
              LET cachedRecords == getItem(sessionStorage, attendanceCacheKey(filters))
              IN (/\ filters.date = Undefined
                  /\ ~isInitialDateSynchronized
                  /\ Truthy(cachedRecords)
                  /\ DatedFirst(JSONparse(cachedRecords)))
                     => /\ DateIs(filters'.date, JSONparse(cachedRecords)[1].date)
                        /\ isInitialDateSynchronized'
       /\ (filters' # filters /\ userChanges' = userChanges)
              => ~isInitialDateSynchronized /\ isInitialDateSynchronized'
       /\ (isInitialDateSynchronized /\ userChanges' = userChanges)
              => filters' = filters]_vars

(***************************************************************************)
(* The caches over a session (Spec).                                       *)
(***************************************************************************)
\* C16: the caches change only in a step that handles a successful response,
\* and that step makes the entry of the response's key, and no other entry,
\* the payload of the response; so an entry written during the session is the
\* payload of the last successful response handled for its key, and neither
\* the start of a run (hydration) nor a failure handler writes an entry.
C16_CacheHoldsLastSuccess ==
    [][/\ (localStorage' # localStorage \/ sessionStorage' # sessionStorage)
              => \E p \in 1..Len(passes) : \E i \in 1..Len(passes[p].fetchPromises) :
                     Settles(p, i, "fulfilled") /\ Published(p, i)
       /\ \A p \in 1..Len(passes) : \A i \in 1..Len(passes[p].fetchPromises) :
              /\ Settles(p, i, "fulfilled") => Published(p, i)
              /\ Settles(p, i, "rejected")
                     => localStorage' = localStorage /\ sessionStorage' = sessionStorage
       /\ StartsPass => localStorage' = localStorage /\ sessionStorage' = sessionStorage
      ]_vars

\* the roster entry written by the first run's response is still there after the
\* second run hydrated from it and its roster request failed
C16_Witness ==
    /\ Len(passes) = 2
    /\ passes[1].fetchPromises[1].state = "fulfilled"
    /\ passes[2].fetchPromises[1].state = "rejected"
    /\ "employeeData" \in DOMAIN localStorage
    /\ localStorage["employeeData"].text \in EmployeePayloads
    /\ localStorage["employeeData"].text # CachedRoster

(***************************************************************************)
(* Overlapping runs of the effect (Spec).                                  *)
(***************************************************************************)
\* C17: nothing cancels the requests of a run when a newer run starts: the
\* response of a superseded run is handled like any other and overwrites the
\* slot, so the slot holds the data of whichever response was handled last.
\* The state the claim describes (C17_Witness) is reachable.
C17_SupersededRunStillWrites ==
    [][\A p \in 1..Len(passes) : \A i \in 1..Len(passes[p].fetchPromises) :
          (p < Len(passes) /\ Settles(p, i, "fulfilled")) => Published(p, i)]_vars

\* everything has settled; the second run asked for the records of 2024-03-01
\* and its response was handled (its cache entry holds it), yet the records slot
\* holds the response of the first run, which was handled after it
C17_Witness ==
    /\ Len(passes) = 2
    /\ PendingRequests = {}
    /\ passes[1].fetchPromises[5].state = "fulfilled"
    /\ passes[2].fetchPromises[5].state = "fulfilled"
    /\ passes[1].attendanceCacheKey # passes[2].attendanceCacheKey
    /\ attendanceRecords = JSONparse(sessionStorage[passes[1].attendanceCacheKey])
    /\ attendanceRecords # JSONparse(sessionStorage[passes[2].attendanceCacheKey])
    /\ attendanceRecords \notin RecordsPayloads(passes[2].fetchPromises[5].request)

(***************************************************************************)
(* The demographic charts of the rendered dashboard (SpecView).            *)
(***************************************************************************)
\* the dashboard is on the page
Dashboard == rendered # Null /\ rendered.page = "Dashboard"

\* the records of the filtered roster the charts were rendered from that satisfy test
Counted(test(_)) ==
    Cardinality({i \in 1..Len(rendered.data) : test(rendered.data[i])})

RECURSIVE Sum(_)
Sum(values) == IF values = <<>> THEN 0 ELSE Head(values) + Sum(Tail(values))

\* C18: the gender distribution is the pair Male then Female, each with the
\* number of records of the filtered roster of that gender; records of another
\* gender are counted in neither, so the two values sum to at most the size of
\* the filtered roster.
C18_GenderDistribution ==
    Dashboard =>
        /\ rendered.genderData =
               <<[name |-> "Male", value |-> Counted(LAMBDA emp : emp.gender = "Male")],
                 [name |-> "Female", value |-> Counted(LAMBDA emp : emp.gender = "Female")]>>
        /\ rendered.genderData[1].value + rendered.genderData[2].value
               = Len(rendered.data)
                     - Counted(LAMBDA emp : emp.gender \notin {"Male", "Female"})

\* the roster Male, Female, Other gives Male 1, Female 1
C18_Witness ==
    /\ Dashboard
    /\ [i \in 1..Len(rendered.data) |-> rendered.data[i].gender]
           = <<"Male", "Female", "Other">>
    /\ rendered.genderData =
           <<[name |-> "Male", value |-> 1], [name |-> "Female", value |-> 1]>>

\* the bounds of the ranges of the travel histogram: above low, up to high
RangeBounds ==
    <<[range |-> "0-5", above |-> -1, upTo |-> 5],
      [range |-> "5-10", above |-> 5, upTo |-> 10],
      [range |-> "10-15", above |-> 10, upTo |-> 15],
      [range |-> "15-20", above |-> 15, upTo |-> 20],
      [range |-> "20+", above |-> 20, upTo |-> 1000]>>

HasKm(emp) == emp.travelKm \notin {Null, Undefined}

\* C19: the travel histogram has the five ranges 0-5, 5-10, 10-15, 15-20, 20+
\* in that order; a record with a travelKm is counted in the one range whose
\* bounds it lies in, a bound value 5, 10, 15 or 20 in the lower range and a
\* value above 20 in 20+; a record without travelKm is counted in none; the
\* counts sum to the number of records with a travelKm.
C19_TravelHistogram ==
    Dashboard =>
        /\ Len(rendered.travelData) = 5
        /\ \A k \in 1..5 :
              /\ rendered.travelData[k].range = RangeBounds[k].range
              /\ rendered.travelData[k].count =
                     Counted(LAMBDA emp :
                                 /\ HasKm(emp)
                                 /\ emp.travelKm.value > RangeBounds[k].above
                                 /\ emp.travelKm.value <= RangeBounds[k].upTo)
        /\ Sum([k \in 1..5 |-> rendered.travelData[k].count]) = Counted(HasKm)

\* the roster with km 5, 10, 15, 20, 25 gives a count of 1 in every range
C19_Witness ==
    /\ Dashboard
    /\ [i \in 1..Len(rendered.data) |-> rendered.data[i].travelKm]
           = <<Num(5), Num(10), Num(15), Num(20), Num(25)>>
    /\ \A k \in 1..5 : rendered.travelData[k].count = 1

\* the places in the filtered roster where a department is seen first
FirstSeen ==
    {i \in 1..Len(rendered.data) :
        \A j \in 1..(i - 1) : rendered.data[j].department # rendered.data[i].department}

\* C20: the department distribution has one {name, value} pair for each
\* department of the filtered roster, in the order the departments are first
\* seen in, the value being the number of records of the department; the
\* values sum to the size of the filtered roster.
C20_DepartmentDistribution ==
    Dashboard =>
        /\ Len(rendered.departmentData) = Cardinality(FirstSeen)
        /\ \A k \in 1..Len(rendered.departmentData) :
              LET i == CHOOSE n \in FirstSeen :
                           Cardinality({m \in FirstSeen : m < n}) = k - 1
                  department == rendered.data[i].department
              IN /\ rendered.departmentData[k].name = department
                 /\ rendered.departmentData[k].value =
                        Counted(LAMBDA emp : emp.department = department)
        /\ Sum([k \in 1..Len(rendered.departmentData) |->
                   rendered.departmentData[k].value]) = Len(rendered.data)

\* Finance is seen first and twice, Engineering once
C20_Witness ==
    /\ Dashboard
    /\ [i \in 1..Len(rendered.data) |-> rendered.data[i].department]
           = <<"Finance", "Engineering", "Finance">>
    /\ rendered.departmentData =
           <<[name |-> "Finance", value |-> 2], [name |-> "Engineering", value |-> 1]>>

(***************************************************************************)
(* The client-side roster filter (SpecView).                               *)
(***************************************************************************)
\* the record passes the three client-side filters as the specification states
\* them: exact gender, exact department, travelKm within the bounds of the bucket
KeptByFilters(emp, f) ==
    /\ f.gender = "all" \/ emp.gender = f.gender
    /\ f.department = "all" \/ emp.department = f.department
    /\ \/ f.travelDistance = "all"
       \/ /\ HasKm(emp)
          /\ emp.travelKm.value >= BucketBounds[f.travelDistance].a
          /\ emp.travelKm.value <= BucketBounds[f.travelDistance].b

\* C21 (as claimed): the filtered roster the effect sets is the roster, in its
\* order, without the records that fail the gender filter, the department
\* filter or the bounds of the travel-distance bucket (both ends inclusive);
\* it is the roster when the three filters are "all".
C21_Original ==
    [][filteredEmployeeData' # filteredEmployeeData =>
          filteredEmployeeData' =
              SelectSeq(employeeData, LAMBDA emp : KeptByFilters(emp, filters))]_vars


(***************************************************************************)
(* The roster filter against the travel histogram (SpecView).              *)
(***************************************************************************)
\* the place in the histogram of the range a travel-distance bucket names
HistogramPlace ==
    [b \in travelDistances \ {"all"} |->
        CASE b = "0-5" -> 1 [] b = "5-10" -> 2 [] b = "10-15" -> 3
          [] b = "15-20" -> 4 [] b = "20-100" -> 5]

\* C30 (as claimed): under a travel-distance bucket, the histogram rendered from
\* the filtered roster counts every record of that roster in the range of the
\* bucket and has count 0 in the four other ranges.
C30_Original ==
    (Dashboard /\ filters.travelDistance # "all"
               /\ rendered.data = FilteredEmployees(employeeData, filters)) =>
        \A k \in 1..5 :
            rendered.travelData[k].count =
                IF k = HistogramPlace[filters.travelDistance]
                THEN Len(rendered.data) ELSE 0


(***************************************************************************)
(* The page from mount on: the runs of the main effect one after the       *)
(* other with any number of failing requests, no filter change, and the    *)
(* filtering effects and the render run after every step before the next   *)
(* response is handled.                                                    *)
(***************************************************************************)
\* the filtering effects have run on the current state and Index has rendered it
ViewSettled ==
    /\ filteredEmployeeData = FilteredEmployees(employeeData, filters)
    /\ filteredAttendanceRecords = attendanceRecords
    /\ rendered = Page

NextPage ==
    \/ /\ ViewSettled
       /\ Len(passes) < MaxPasses
       /\ PendingRequests = {}
       /\ fetchData
    \/ \E p \in 1..MaxPasses :
          \/ /\ ViewSettled
             /\ \E employees \in EmployeePayloads : getEmployeesThen(p, employees)
          \/ /\ ViewSettled
             /\ \E trends \in TrendPayloads : getAttendanceTrendsThen(p, trends)
          \/ /\ ViewSettled
             /\ \E lateStats \in LatePayloads : getLateStatisticsThen(p, lateStats)
          \/ /\ ViewSettled
             /\ \E onTimeStats \in OnTimePayloads : getOntimeStatisticsThen(p, onTimeStats)
          \/ /\ ViewSettled
             /\ Pending(p, "records")
             /\ \E allRecords \in RecordsPayloads(passes[p].fetchPromises[5].request) :
                   getAllAttendanceRecordsThen(p, allRecords)
          \/ /\ ViewSettled
             /\ \E source \in Sources : Catch(p, source)
    \/ EmployeeDataFilteringEffect
    \/ AttendanceRecordsFilteringEffect
    \/ Render

SpecPage == Init /\ [][NextPage]_vars

(***************************************************************************)
(* The empty state (SpecPage).                                             *)
(***************************************************************************)
\* the five sources of the page are empty: the filtered roster, the trend data
\* and the records of the grid have no element, both statistics are null
AllSourcesEmpty ==
    /\ Len(filteredEmployeeData) = 0
    /\ Len(attendanceTrendData) = 0
    /\ Len(filteredAttendanceRecords) = 0
    /\ lateStatistics = Null
    /\ onTimeStatistics = Null

\* C22: a render shows the no-data message exactly when the loading flag is
\* false and the five sources are empty together (the attendance records being
\* those of the grid), and shows nothing but the loading placeholder, the
\* message or the dashboard; handling a failed request changes no source and
\* never sets the loading flag, so no failure brings up anything else.
C22_EmptyState ==
    [][/\ rendered' # rendered =>
             /\ rendered'.page \in {"LoadingState", "NoData", "Dashboard"}
             /\ rendered'.page = "NoData" <=> (~isLoading /\ AllSourcesEmpty)
       /\ FailedRequests' # FailedRequests =>
             /\ UNCHANGED <<employeeData, attendanceTrendData, attendanceRecords,
                            lateStatistics, onTimeStatistics, viewVars>>
             /\ isLoading' => isLoading]_vars

\* the five requests of the mount run have failed and the message is shown
C22_Witness ==
    /\ Len(passes) = 1
    /\ \A i \in 1..5 : passes[1].fetchPromises[i].state = "rejected"
    /\ ~isLoading
    /\ rendered # Null
    /\ rendered.page = "NoData"


(***************************************************************************)
(* From mount with no filter change: the runs of the effect, overlapping   *)
(* as in Spec, and the completion handlers; on the stores a session        *)
(* leaves (SpecMount) and on stores with an entry that is not JSON          *)
(* (SpecCorrupt).                                                          *)
(***************************************************************************)
NextMount ==
    \/ /\ Len(passes) < MaxMountPasses
       /\ Cardinality(PendingRequests) <= MaxStale
       /\ fetchData
    \/ \E p \in 1..MaxMountPasses :
          \/ \E employees \in EmployeePayloads : getEmployeesThen(p, employees)
          \/ \E trends \in TrendPayloads : getAttendanceTrendsThen(p, trends)
          \/ \E lateStats \in LatePayloads : getLateStatisticsThen(p, lateStats)
          \/ \E onTimeStats \in OnTimePayloads : getOntimeStatisticsThen(p, onTimeStats)
          \/ /\ Pending(p, "records")
             /\ \E allRecords \in RecordsPayloads(passes[p].fetchPromises[5].request) :
                   getAllAttendanceRecordsThen(p, allRecords)
          \/ /\ Cardinality(FailedRequests) < MaxFailures
             /\ \E source \in Sources : Catch(p, source)

SpecMount == Init /\ [][NextMount]_vars

\* the requests settle and the effect runs when its dependencies changed
SpecMountFair == SpecMount /\ WF_vars(NextMount)

\* an entry something other than the page wrote: not JSON text
CorruptEntry == Str("{")

\* the stores of InitialStores with one entry replaced by a corrupt one: one of
\* the four fixed keys, the records key of the mount run, or the records key
\* of the run that follows auto-sync to a date of the backend
CorruptStores ==
    LET datedKeys == {attendanceCacheKey([DefaultFilters EXCEPT !.date = newDate(iso)]) :
                          iso \in ServerDates}
        sessionKeys == {"attendanceTrendData", "lateStatistics", "onTimeStatistics",
                        attendanceCacheKey(DefaultFilters)} \cup datedKeys
    IN {[st EXCEPT !.local = setItem(@, "employeeData", CorruptEntry)] :
            st \in InitialStores}
       \cup {[st EXCEPT !.session = setItem(@, k, CorruptEntry)] :
                st \in InitialStores, k \in sessionKeys}

InitCorrupt ==
    /\ tzWest \in BOOLEAN
    /\ isLoading = TRUE
    /\ employeeData = <<>>
    /\ attendanceTrendData = <<>>
    /\ attendanceRecords = <<>>
    /\ lateStatistics = Null
    /\ onTimeStatistics = Null
    /\ filters = DefaultFilters
    /\ isInitialDateSynchronized = FALSE
    /\ \E st \in CorruptStores :
          /\ localStorage = st.local
          /\ sessionStorage = st.session
    /\ effectDeps = <<>>
    /\ passes = <<>>
    /\ userChanges = 0
    /\ filteredEmployeeData = <<>>
    /\ filteredAttendanceRecords = <<>>
    /\ rendered = Null
    /\ ComponentsInit

SpecCorrupt == InitCorrupt /\ [][NextMount]_vars

(***************************************************************************)
(* A corrupt cache entry (SpecCorrupt).                                    *)
(***************************************************************************)
\* the sources in the order hydration reads their entries
ReadOrder == <<"employees", "trends", "late", "ontime", "records">>

\* the entry a run starting in this state reads for the k-th source is corrupt
ReadsCorrupt(k) ==
    LET s == ReadOrder[k]
        entry == getItem(Store(s), EntryKey([attendanceCacheKey |-> attendanceCacheKey(filters)], s))
    IN entry # Null /\ JSONparseThrows(entry)

\* C24: a run that reads a corrupt entry issues none of its five requests and
\* does not clear the loading flag; it leaves the two stores as they were and
\* leaves the slot of the corrupt entry and the slots hydrated after it as
\* they were; and the flag is only ever cleared by a run that issued requests.
C24_CorruptEntryThrows ==
    [][/\ (StartsPass /\ \E k \in 1..5 : ReadsCorrupt(k)) =>
             /\ passes'[Len(passes')].fetchPromises = <<>>
             /\ isLoading'
             /\ UNCHANGED <<localStorage, sessionStorage>>
             /\ \A k \in 1..5 :
                   (\E j \in 1..k : ReadsCorrupt(j)) =>
                       Slot(ReadOrder[k])' = Slot(ReadOrder[k])
       /\ (isLoading /\ ~isLoading') =>
             \E q \in 1..Len(passes') :
                 /\ passes'[q].fetchPromises # <<>>
                 /\ q > Len(passes) \/ SettlesLast(q)]_vars

\* the mount run hydrated the cached roster, then threw on the trend entry
C24_Witness ==
    /\ Len(passes) = 1
    /\ passes[1].fetchPromises = <<>>
    /\ isLoading
    /\ employeeData = CachedRoster
    /\ "attendanceTrendData" \in DOMAIN sessionStorage
    /\ attendanceTrendData = <<>>

\* the run after auto-sync threw on the entry of the dated key while a request
\* of the mount run was pending; the mount run then cleared the loading flag
C24_WitnessLaterPass ==
    /\ Len(passes) = 2
    /\ passes[2].fetchPromises = <<>>
    /\ AllSettled(passes[1])
    /\ ~isLoading


(***************************************************************************)
(* Auto-sync against the date the user picked (Spec).                      *)
(***************************************************************************)
\* C23 (as claimed): a step that is not a filter change of the user and writes
\* FilterState.date (auto-sync, in hydration or in the records handler) finds
\* the date absent.
C23_Original ==
    [][(filters'.date # filters.date /\ userChanges' = userChanges) =>
           filters.date = Undefined]_vars


(***************************************************************************)
(* Slots against cache entries, and what a handler touches (Spec).         *)
(***************************************************************************)
FixedSources == {"employees", "trends", "late", "ontime"}

\* the entry of a fixed-key source exists
HasEntry(s) == EntryKey([attendanceCacheKey |-> ""], s) \in DOMAIN Store(s)

\* the payload in the entry of a fixed-key source
EntryPayload(s) == Store(s)[EntryKey([attendanceCacheKey |-> ""], s)].text

\* C25: once the first run has hydrated, the slot of each of the four fixed-key
\* sources equals the payload in its cache entry whenever the entry exists; so
\* the hydration of a later run leaves the four slots as they are.
C25_SlotEqualsEntry ==
    [][/\ Len(passes') >= 1 =>
              \A s \in FixedSources : HasEntry(s)' => Slot(s)' = EntryPayload(s)'
       /\ (StartsPass /\ Len(passes) >= 1) =>
              \A s \in FixedSources : Slot(s)' = Slot(s)]_vars

\* a second run has started on a roster the first run fetched and cached, other
\* than the roster an earlier session had left in the cache
C25_Witness ==
    /\ Len(passes) = 2
    /\ HasEntry("employees")
    /\ employeeData = EntryPayload("employees")
    /\ employeeData # CachedRoster
    /\ passes[1].hasCachedDataBeenSet

\* C26: when a records response is handled, the result set is stored under the
\* key computed from the filters of the run that issued the request, whatever
\* the filters are by then; every other entry, the entry under the key of a
\* newer run included, is left as it is.
C26_CachedUnderOwnKey ==
    [][\A p \in 1..Len(passes) :
          Settles(p, 5, "fulfilled") =>
              LET key == attendanceCacheKey(passes[p].filters)
              IN /\ key \in DOMAIN sessionStorage'
                 /\ sessionStorage'[key].text \in RecordsPayloads(passes[p].fetchPromises[5].request)
                 /\ sessionStorage'[key].text = attendanceRecords'
                 /\ \A k \in DOMAIN sessionStorage' \ {key} :
                       k \in DOMAIN sessionStorage /\ sessionStorage'[k] = sessionStorage[k]]_vars

\* the response of the first run was handled after that of the second, under
\* other filters: each result set is under the key of its own run
C26_Witness ==
    /\ Len(passes) = 2
    /\ passes[1].fetchPromises[5].state = "fulfilled"
    /\ passes[2].fetchPromises[5].state = "fulfilled"
    /\ attendanceCacheKey(passes[1].filters) # attendanceCacheKey(passes[2].filters)
    /\ attendanceCacheKey(filters) = attendanceCacheKey(passes[2].filters)
    /\ attendanceCacheKey(passes[1].filters) \in DOMAIN sessionStorage
    /\ attendanceCacheKey(passes[2].filters) \in DOMAIN sessionStorage
    /\ sessionStorage[attendanceCacheKey(passes[1].filters)].text = attendanceRecords
    /\ sessionStorage[attendanceCacheKey(passes[2].filters)].text # attendanceRecords

\* the entries of the four fixed-key sources, absent ones as Null
FixedEntries ==
    <<getItem(localStorage, "employeeData"), getItem(sessionStorage, "attendanceTrendData"),
      getItem(sessionStorage, "lateStatistics"), getItem(sessionStorage, "onTimeStatistics")>>

\* C28: handling the success or the failure of a roster, trend, late-statistics
\* or on-time-statistics request leaves the four other slots, every cache entry
\* but its own, FilterState and the synced flag unchanged; handling a records
\* response leaves the four other slots and their entries unchanged and
\* changes no field of FilterState but date.
C28_HandlerFrame ==
    [][\A p \in 1..Len(passes) :
          /\ \A i \in 1..4 :
                (Settles(p, i, "fulfilled") \/ Settles(p, i, "rejected")) =>
                    LET s == passes[p].fetchPromises[i].source
                        key == EntryKey(passes[p], s)
                    IN /\ \A o \in Sources \ {s} : Slot(o)' = Slot(o)
                       /\ DOMAIN Store(s)' \ {key} = DOMAIN Store(s) \ {key}
                       /\ \A k \in DOMAIN Store(s) \ {key} : Store(s)'[k] = Store(s)[k]
                       /\ OtherStore(s)' = OtherStore(s)
                       /\ UNCHANGED <<filters, isInitialDateSynchronized>>
          /\ (Settles(p, 5, "fulfilled") \/ Settles(p, 5, "rejected")) =>
                /\ \A o \in FixedSources : Slot(o)' = Slot(o)
                /\ FixedEntries' = FixedEntries
                /\ filters' = [filters EXCEPT !.date = filters'.date]]_vars

\* the trend response of the mount run was handled while a roster hydrated from
\* the cache was on the page and the four other requests were pending
C28_Witness ==
    /\ Len(passes) = 1
    /\ passes[1].fetchPromises[2].state = "fulfilled"
    /\ \A i \in {1, 3, 4, 5} : passes[1].fetchPromises[i].state = "pending"
    /\ attendanceTrendData # <<>>
    /\ employeeData = CachedRoster
    /\ lateStatistics = Null


(***************************************************************************)
(* The records on the page against the current filters (Spec).             *)
(***************************************************************************)
\* C27 (as claimed): when the loading flag is false (and the effect has run on
\* the current filters), the records slot is empty or holds the result set
\* cached under the key of the current filter combination, which is the set
\* last obtained for that key from the cache or the network.
C27_Original ==
    (~isLoading /\ effectDeps = Deps(filters)) =>
        \/ attendanceRecords = <<>>
        \/ /\ attendanceCacheKey(filters) \in DOMAIN sessionStorage
           /\ sessionStorage[attendanceCacheKey(filters)].text = attendanceRecords


\* the user chose gender Female after the mount run had shown the records of
\* all genders; the run on the new filters found the roster in the cache and
\* cleared the loading flag, and the page shows the records of all genders
\* while no result set for the key of the new filters exists
C27_StaleUnderNewFilters ==
    /\ ~isLoading
    /\ effectDeps = Deps(filters)
    /\ filters.gender = "Female"
    /\ Len(passes) = 2
    /\ passes[1].filters.gender = "all"
    /\ passes[2].fetchPromises[5].state = "pending"
    /\ attendanceRecords # <<>>
    /\ attendanceCacheKey(filters) \notin DOMAIN sessionStorage


(***************************************************************************)
(* Runs of the effect from mount without filter changes (SpecMountFair).   *)
(***************************************************************************)
\* nothing is left to do: every request has settled, the effect has run on the
\* current filters, and the loading flag is false
Quiescent == PendingRequests = {} /\ effectDeps = Deps(filters) /\ ~isLoading

\* C29 (as claimed): with no filter change by the user and every request
\* settling, the effect runs at most twice (the mount run and one run after
\* auto-sync set the date), and the page comes to rest with the loading flag
\* false.
C29_Original == [](Len(passes) <= 2) /\ <>[]Quiescent

\* what does hold on the same runs: at most three runs, and the page comes to rest
C29_ThreeRunsThenRest == [](Len(passes) <= 3) /\ <>[]Quiescent


(***************************************************************************)
(* The travel range of the records request against the roster filter: one  *)
(* run of the main effect and of the roster filtering effect on a roster   *)
(* of one employee, for every bucket and travel distances on both sides of *)
(* every bound, 100 included.                                              *)
(***************************************************************************)

InitTravel ==
    /\ isLoading = TRUE
    /\ \E km \in {0, 3, 5, 7, 10, 12, 15, 17, 20, 25, 100, 101, 150} :
          employeeData = <<Employee(1, "Female", "Engineering", Num(km))>>
    /\ attendanceTrendData = <<>>
    /\ attendanceRecords = <<>>
    /\ lateStatistics = Null
    /\ onTimeStatistics = Null
    /\ \E bucket \in travelDistances :
          filters = [DefaultFilters EXCEPT !.travelDistance = bucket]
    /\ isInitialDateSynchronized = FALSE
    /\ localStorage = EmptyStore
    /\ sessionStorage = EmptyStore
    /\ effectDeps = <<>>
    /\ passes = <<>>
    /\ userChanges = 0
    /\ tzWest \in BOOLEAN
    /\ filteredEmployeeData = <<>>
    /\ filteredAttendanceRecords = <<>>
    /\ rendered = Null
    /\ ComponentsInit

NextTravel ==
    \/ fetchData
    \/ EmployeeDataFilteringEffect

SpecTravel == InitTravel /\ [][NextTravel]_vars

(***************************************************************************)
(* Server range against client range (SpecTravel).                         *)
(***************************************************************************)
\* a travel distance lies in the range the parameters of a request denote: at
\* least travelDistanceMin and at most travelDistanceMax, a bound that is not
\* sent being no bound
InRequestRange(params, km) ==
    /\ "travelDistanceMin" \in DOMAIN params => km >= params["travelDistanceMin"].value
    /\ "travelDistanceMax" \in DOMAIN params => km <= params["travelDistanceMax"].value

\* C31 (as claimed): once the effect has issued the records request and the
\* roster filter has run, the employee is in the filtered roster exactly when
\* their travelKm lies in the range of the request; under "20-100" every
\* travelKm of at least 20 is kept.
C31_Original ==
    (Len(passes) = 1 /\ filteredEmployeeData = FilteredEmployees(employeeData, filters)) =>
        /\ Len(filteredEmployeeData) = 1 <=>
               InRequestRange(RecordsParams(passes[1]), employeeData[1].travelKm.value)
        /\ (filters.travelDistance = "20-100" /\ employeeData[1].travelKm.value >= 20) =>
               Len(filteredEmployeeData) = 1


(***************************************************************************)
(* The API functions of services/api.ts between the transport and the      *)
(* completion handlers: what axios answers each source with is fixed at    *)
(* mount; runs of the effect follow one another.                           *)
(***************************************************************************)
\* what the transport can answer a request with: a response with a status, or
\* no response at all
AxiosAnswers ==
    {[type |-> "response", status |-> 200],
     [type |-> "response", status |-> 500],
     [type |-> "network"]}

\* api.get(url, ...): the promise resolves with the response when the status
\* is 2xx and rejects with an AxiosError otherwise (no response, or a status
\* that is not a success)
AxiosGet(answer, data) ==
    IF answer.type = "response" /\ answer.status \in 200..299
    THEN [state |-> "fulfilled", value |-> [data |-> data, status |-> answer.status]]
    ELSE [state |-> "rejected", reason |-> [type |-> "AxiosError", cause |-> answer]]

\* variant of apiFunction whose catch block logs and does not throw: the
\* promise resolves with undefined
apiFunction_Swallow(get) ==
    IF get.state = "fulfilled"
    THEN [state |-> "fulfilled", value |-> get.value.data]
    ELSE [state |-> "fulfilled", value |-> Undefined]

\* the body shared by getEmployees, getAttendanceTrends, getAllAttendanceRecords,
\* getLateStatistics and getOntimeStatistics: try { const response = await
\* api.get(...); return response.data } catch (error) { console.error(...);
\* throw error }, given the settled promise of api.get
apiFunction(get) ==
    IF get.state = "fulfilled"
    THEN [state |-> "fulfilled", value |-> get.value.data]
    ELSE [state |-> "rejected", reason |-> get.reason]

\* the promise of the API function of a source, the backend sending data when
\* it sends a success
apiPromise(source, data) == apiFunction(AxiosGet(axiosResponses[source], data))

InitApi ==
    /\ isLoading = TRUE
    /\ employeeData = <<>>
    /\ attendanceTrendData = <<>>
    /\ attendanceRecords = <<>>
    /\ lateStatistics = Null
    /\ onTimeStatistics = Null
    /\ filters = DefaultFilters
    /\ isInitialDateSynchronized = FALSE
    /\ localStorage = EmptyStore
    /\ sessionStorage = EmptyStore
    /\ effectDeps = <<>>
    /\ passes = <<>>
    /\ userChanges = 0
    /\ tzWest \in BOOLEAN
    /\ filteredEmployeeData = <<>>
    /\ filteredAttendanceRecords = <<>>
    /\ rendered = Null
    /\ axiosResponses \in [Sources -> AxiosAnswers]
    /\ currentPage = 1
    /\ searchQuery = ""
    /\ filteredData = <<>>
    /\ gridDeps = Null
    /\ gridView = Null
    /\ pageInput = Null
    /\ mockDailyAttendanceData = <<>>
    /\ isLateCall = Null

\* promise.then(handler).catch(handler): the success handler runs with the
\* value of a fulfilled promise, the catch handler on a rejected one
NextApi ==
    \/ /\ Len(passes) < MaxPasses
       /\ PendingRequests = {}
       /\ fetchData
    \/ \E p \in 1..MaxPasses :
          \/ \E employees \in EmployeePayloads :
                /\ apiPromise("employees", employees).state = "fulfilled"
                /\ getEmployeesThen(p, apiPromise("employees", employees).value)
          \/ \E trends \in TrendPayloads :
                /\ apiPromise("trends", trends).state = "fulfilled"
                /\ getAttendanceTrendsThen(p, apiPromise("trends", trends).value)
          \/ \E lateStats \in LatePayloads :
                /\ apiPromise("late", lateStats).state = "fulfilled"
                /\ getLateStatisticsThen(p, apiPromise("late", lateStats).value)
          \/ \E onTimeStats \in OnTimePayloads :
                /\ apiPromise("ontime", onTimeStats).state = "fulfilled"
                /\ getOntimeStatisticsThen(p, apiPromise("ontime", onTimeStats).value)
          \/ /\ Pending(p, "records")
             /\ \E allRecords \in RecordsPayloads(passes[p].fetchPromises[5].request) :
                   /\ apiPromise("records", allRecords).state = "fulfilled"
                   /\ getAllAttendanceRecordsThen(p, apiPromise("records", allRecords).value)
          \/ \E source \in Sources :
                /\ apiPromise(source, Undefined).state = "rejected"
                /\ Catch(p, source)

SpecApi == InitApi /\ [][NextApi]_vars

(***************************************************************************)
(* Failed requests (SpecApi).                                              *)
(***************************************************************************)
\* the transport answers the request of a source with a success
Succeeds(source) ==
    axiosResponses[source].type = "response" /\ axiosResponses[source].status \in 200..299

\* C32: on a transport failure or a status that is not a success, the API
\* function rejects with the very error api.get rejected with and does not
\* resolve; so a request settles as fulfilled, with the success handler
\* publishing a payload of the backend to slot and cache, only when the
\* transport answered with a success, and a request that failed settles as
\* rejected with slots and caches left as they were.
C32_FailureRejects ==
    [][\A p \in 1..Len(passes) : \A i \in 1..5 :
          LET s == passes[p].fetchPromises[i].source
              get == AxiosGet(axiosResponses[s], Undefined)
          IN /\ ~Succeeds(s) =>
                   /\ apiFunction(get).state = "rejected"
                   /\ apiFunction(get).reason = get.reason
                   /\ ~Settles(p, i, "fulfilled")
             /\ Settles(p, i, "fulfilled") =>
                   /\ Succeeds(s)
                   /\ Published(p, i)
             /\ Settles(p, i, "rejected") =>
                   /\ ~Succeeds(s)
                   /\ UNCHANGED <<employeeData, attendanceTrendData, attendanceRecords,
                                  lateStatistics, onTimeStatistics, localStorage,
                                  sessionStorage>>]_vars

\* the roster request got status 500 and the records request no response: both
\* are rejected, their slots empty and uncached, while the trend response was
\* published
C32_Witness ==
    /\ Len(passes) = 1
    /\ axiosResponses["employees"] = [type |-> "response", status |-> 500]
    /\ axiosResponses["records"] = [type |-> "network"]
    /\ passes[1].fetchPromises[1].state = "rejected"
    /\ passes[1].fetchPromises[5].state = "rejected"
    /\ passes[1].fetchPromises[2].state = "fulfilled"
    /\ employeeData = <<>>
    /\ "employeeData" \notin DOMAIN localStorage
    /\ attendanceTrendData # <<>>


(***************************************************************************)
(* components/EmployeeAttendanceGrid.tsx: the paged grid of attendance     *)
(* records. The file holds the component twice: without a search box       *)
(* (EmployeeAttendanceGrid) and with search and go-to-page                 *)
(* (EmployeeAttendanceGridSearch). The data prop is                        *)
(* filteredAttendanceRecords of the page.                                  *)
(***************************************************************************)
\* most records the page hands to the grid
MaxGridRecords == 55

itemsPerPage == 6

maxPageNumbers == 5

MathMax(a, b) == IF a >= b THEN a ELSE b

MathMin(a, b) == IF a <= b THEN a ELSE b

\* record i as the backend sends it
GridRecord(i) ==
    [id |-> i, employeeId |-> 100 + i, employeeName |-> <<"Ann", "Bob", "Al", "Zoe">>[(i % 4) + 1]]

\* the record lists the page hands over: none, one, whole pages, whole pages
\* and some
GridData ==
    {[i \in 1..n |-> GridRecord(i)] : n \in {0, 1, 6, 7, 13, 31, 49, MaxGridRecords}}

\* String.prototype.trim, of blanks
RECURSIVE trim(_)
trim(s) ==
    IF Len(s) > 0 /\ SubSeq(s, 1, 1) = " " THEN trim(Tail(s))
    ELSE IF Len(s) > 0 /\ SubSeq(s, Len(s), Len(s)) = " " THEN trim(SubSeq(s, 1, Len(s) - 1))
    ELSE s

\* String.prototype.includes
includes(s, q) ==
    \E i \in 1..(Len(s) - Len(q) + 1) : SubSeq(s, i, i + Len(q) - 1) = q

\* leading blanks dropped
RECURSIVE trimStart(_)
trimStart(s) == IF Len(s) > 0 /\ SubSeq(s, 1, 1) = " " THEN trimStart(Tail(s)) ELSE s

\* parseInt of a string: blanks skipped, an optional sign, then the longest run
\* of digits; NaN when there is no digit
parseInt(str) ==
    LET s == trimStart(str)
        negative == Len(s) > 0 /\ SubSeq(s, 1, 1) = "-"
        signed == Len(s) > 0 /\ SubSeq(s, 1, 1) \in {"-", "+"}
        body == IF signed THEN Tail(s) ELSE s
        n == DigitPrefix(body)
    IN IF n = 0 THEN NaN
       ELSE LET v == DigitsToNat(SubSeq(body, 1, n), 0)
            IN Num(IF negative THEN 0 - v ELSE v)

\* Array.prototype.slice(begin, end) with 0 <= begin <= end
slice(arr, begin, end) ==
    IF begin >= Len(arr) THEN <<>> ELSE SubSeq(arr, begin + 1, MathMin(end, Len(arr)))

\* Math.ceil(records.length / itemsPerPage)
totalPages(records) == (Len(records) + itemsPerPage - 1) \div itemsPerPage

indexOfLastItem(page) == page * itemsPerPage

indexOfFirstItem(page) == indexOfLastItem(page) - itemsPerPage

\* variant of currentItems that takes one record more
currentItems_Overlap(records, page) ==
    slice(records, indexOfFirstItem(page), indexOfLastItem(page) + 1)

currentItems(records, page) ==
    slice(records, indexOfFirstItem(page), indexOfLastItem(page))

PaginationLink(page, current) == [type |-> "page", page |-> page, isActive |-> current = page]

PaginationEllipsis(key) == [type |-> "ellipsis", key |-> key]

\* the items pushed for a window startPage..endPage: the first page and an
\* ellipsis, the pages of the window, an ellipsis and the last page
PaginationItems(current, total, startPage, endPage) ==
    (IF startPage > 1
     THEN <<PaginationLink(1, current)>> \o
          (IF startPage > 2 THEN <<PaginationEllipsis("ellipsis-start")>> ELSE <<>>)
     ELSE <<>>)
    \o (IF endPage < startPage THEN <<>>
        ELSE [i \in 1..(endPage - startPage + 1) |-> PaginationLink(startPage + i - 1, current)])
    \o (IF endPage < total
        THEN (IF endPage < total - 1 THEN <<PaginationEllipsis("ellipsis-end")>> ELSE <<>>) \o
             <<PaginationLink(total, current)>>
        ELSE <<>>)

\* variant of renderPaginationItems that leaves the window as first computed
renderPaginationItems_NoAdjust(current, total) ==
    PaginationItems(current, total,
                    MathMax(1, current - (maxPageNumbers \div 2)),
                    MathMin(total, current + (maxPageNumbers \div 2)))

\* renderPaginationItems of EmployeeAttendanceGrid
renderPaginationItems(current, total) ==
    LET startPage0 == MathMax(1, current - (maxPageNumbers \div 2))
        endPage0 == MathMin(total, current + (maxPageNumbers \div 2))
        startPage == IF endPage0 - startPage0 + 1 < maxPageNumbers
                     THEN MathMax(1, endPage0 - maxPageNumbers + 1) ELSE startPage0
        endPage == IF endPage0 - startPage + 1 < maxPageNumbers
                   THEN MathMin(total, startPage + maxPageNumbers - 1) ELSE endPage0
    IN PaginationItems(current, total, startPage, endPage)

\* renderPaginationItems of the grid with search
renderPaginationItemsSearch(current, total) ==
    LET pageNumbersToShow == maxPageNumbers
        half == pageNumbersToShow \div 2
        startPage0 == MathMax(1, current - half)
        endPage0 == MathMin(total, current + half)
        short == endPage0 - startPage0 + 1 < pageNumbersToShow
        endPage == IF short /\ startPage0 = 1
                   THEN MathMin(total, pageNumbersToShow) ELSE endPage0
        startPage == IF short /\ startPage0 # 1 /\ endPage0 = total
                     THEN MathMax(1, total - pageNumbersToShow + 1) ELSE startPage0
    IN PaginationItems(current, total, startPage, endPage)

\* what a render of the grid shows of records at a page: the cards, and the
\* pagination bar when there is more than one page
GridView(records, page, items) ==
    [currentPage |-> page,
     totalPages |-> totalPages(records),
     currentItems |-> currentItems(records, page),
     pagination |-> IF totalPages(records) > 1 THEN items ELSE <<>>]

\* the render of EmployeeAttendanceGrid, from the data prop
EmployeeAttendanceGrid ==
    /\ gridView # GridView(filteredAttendanceRecords, currentPage,
                           renderPaginationItems(currentPage,
                                                 totalPages(filteredAttendanceRecords)))
    /\ gridView' = GridView(filteredAttendanceRecords, currentPage,
                            renderPaginationItems(currentPage,
                                                  totalPages(filteredAttendanceRecords)))
    /\ UNCHANGED <<indexVars, filteredEmployeeData, filteredAttendanceRecords, rendered,
                   axiosResponses, currentPage, searchQuery, filteredData, gridDeps,
                   pageInput, mockDailyAttendanceData, isLateCall>>

\* the render of the grid with search, from filteredData
EmployeeAttendanceGridSearch ==
    /\ gridView # GridView(filteredData, currentPage,
                           renderPaginationItemsSearch(currentPage, totalPages(filteredData)))
    /\ gridView' = GridView(filteredData, currentPage,
                            renderPaginationItemsSearch(currentPage, totalPages(filteredData)))
    /\ UNCHANGED <<indexVars, filteredEmployeeData, filteredAttendanceRecords, rendered,
                   axiosResponses, currentPage, searchQuery, filteredData, gridDeps,
                   pageInput, mockDailyAttendanceData, isLateCall>>

\* the page has loaded other records and hands them to the grid
DataChange(data) ==
    /\ data # filteredAttendanceRecords
    /\ attendanceRecords' = data
    /\ filteredAttendanceRecords' = data
    /\ UNCHANGED <<isLoading, employeeData, attendanceTrendData, lateStatistics,
                   onTimeStatistics, filters, isInitialDateSynchronized, localStorage,
                   sessionStorage, effectDeps, passes, userChanges, tzWest>>
    /\ UNCHANGED <<filteredEmployeeData, rendered, axiosResponses, mockDailyAttendanceData,
                   isLateCall, currentPage, searchQuery, filteredData, gridDeps, gridView,
                   pageInput>>

\* the dependency array of the effect of the grid with search
GridDeps(query, data) == [searchQuery |-> query, data |-> data]

\* useEffect(..., [searchQuery, data]) of the grid with search
SearchEffect ==
    /\ gridDeps # GridDeps(searchQuery, filteredAttendanceRecords)
    /\ filteredData' =
           IF trim(searchQuery) = "" THEN filteredAttendanceRecords
           ELSE SelectSeq(filteredAttendanceRecords, LAMBDA record :
                    \/ includes(toLowerCase(record.employeeName), toLowerCase(searchQuery))
                    \/ includes(ToString(record.employeeId), toLowerCase(searchQuery)))
    /\ currentPage' = 1
    /\ gridDeps' = GridDeps(searchQuery, filteredAttendanceRecords)
    /\ UNCHANGED <<indexVars, filteredEmployeeData, rendered, axiosResponses,
                   mockDailyAttendanceData, isLateCall, pageInput, filteredAttendanceRecords, searchQuery, gridView>>

\* onChange of the search box
setSearchQuery(value) ==
    /\ value # searchQuery
    /\ searchQuery' = value
    /\ UNCHANGED <<indexVars, filteredEmployeeData, rendered, axiosResponses,
                   mockDailyAttendanceData, isLateCall, pageInput, filteredAttendanceRecords, currentPage, filteredData,
                   gridDeps, gridView>>

handlePageChange(page) ==
    /\ currentPage' = page
    /\ UNCHANGED <<indexVars, filteredEmployeeData, rendered, axiosResponses,
                   mockDailyAttendanceData, isLateCall, pageInput, filteredAttendanceRecords, searchQuery, filteredData,
                   gridDeps, gridView>>

\* the pagination bar is on screen
PaginationShown == gridView # Null /\ gridView.totalPages > 1

PreviousClick ==
    /\ PaginationShown
    /\ gridView.currentPage # 1
    /\ handlePageChange(MathMax(1, gridView.currentPage - 1))

NextClick ==
    /\ PaginationShown
    /\ gridView.currentPage # gridView.totalPages
    /\ handlePageChange(MathMin(gridView.totalPages, gridView.currentPage + 1))

\* a click on one of the page links of the bar
PageLinkClick ==
    /\ PaginationShown
    /\ \E i \in 1..Len(gridView.pagination) :
          /\ gridView.pagination[i].type = "page"
          /\ handlePageChange(gridView.pagination[i].page)

\* the Last button of the grid with search
LastClick ==
    /\ PaginationShown
    /\ gridView.currentPage # gridView.totalPages
    /\ handlePageChange(gridView.totalPages)

\* variant of handleGoToPage that checks the lower limit alone
handleGoToPage_NoUpper(value) ==
    /\ PaginationShown
    /\ LET page == parseInt(value)
       IN IF page.type = "number" /\ page.value >= 1
          THEN currentPage' = page.value
          ELSE UNCHANGED currentPage
    /\ pageInput' = Str(value)
    /\ UNCHANGED <<indexVars, filteredEmployeeData, rendered, axiosResponses,
                   mockDailyAttendanceData, isLateCall, filteredAttendanceRecords, searchQuery, filteredData,
                   gridDeps, gridView>>

\* submit of the go-to-page form with value in its input
handleGoToPage(value) ==
    /\ PaginationShown
    /\ LET page == parseInt(value)
       IN IF page.type = "number" /\ page.value >= 1 /\ page.value <= gridView.totalPages
          THEN currentPage' = page.value
          ELSE UNCHANGED currentPage
    /\ pageInput' = Str(value)
    /\ UNCHANGED <<indexVars, filteredEmployeeData, rendered, axiosResponses,
                   mockDailyAttendanceData, isLateCall, filteredAttendanceRecords, searchQuery, filteredData,
                   gridDeps, gridView>>

\* the page around the grid: loaded, the grid mounting with the records data
InitGrid ==
    \E data \in GridData :
        /\ isLoading = FALSE
        /\ employeeData = <<>>
        /\ attendanceTrendData = <<>>
        /\ attendanceRecords = data
        /\ lateStatistics = Null
        /\ onTimeStatistics = Null
        /\ filters = DefaultFilters
        /\ isInitialDateSynchronized = FALSE
        /\ localStorage = EmptyStore
        /\ sessionStorage = EmptyStore
        /\ effectDeps = Deps(DefaultFilters)
        /\ passes = <<>>
        /\ userChanges = 0
        /\ tzWest = FALSE
        /\ filteredEmployeeData = <<>>
        /\ filteredAttendanceRecords = data
        /\ rendered = Null
        /\ axiosResponses = Null
        /\ currentPage = 1
        /\ searchQuery = ""
        /\ filteredData = data
        /\ gridDeps = Null
        /\ gridView = Null
        /\ pageInput = Null
        /\ mockDailyAttendanceData = <<>>
        /\ isLateCall = Null

\* a user event finds the last render on screen
GridRendered ==
    gridView = GridView(filteredAttendanceRecords, currentPage,
                        renderPaginationItems(currentPage,
                                              totalPages(filteredAttendanceRecords)))

\* EmployeeAttendanceGrid: no effect, the pages are cut from the data prop
NextGrid ==
    \/ EmployeeAttendanceGrid
    \/ /\ GridRendered
       /\ \E data \in GridData : DataChange(data)
    \/ /\ GridRendered
       /\ PreviousClick
    \/ /\ GridRendered
       /\ NextClick
    \/ /\ GridRendered
       /\ PageLinkClick

SpecGrid == InitGrid /\ [][NextGrid]_vars

\* render and effect of the grid with search have run
GridSearchSettled ==
    /\ gridDeps = GridDeps(searchQuery, filteredAttendanceRecords)
    /\ gridView = GridView(filteredData, currentPage,
                           renderPaginationItemsSearch(currentPage, totalPages(filteredData)))

NextGridSearch ==
    \/ EmployeeAttendanceGridSearch
    \/ /\ gridView # Null
       /\ SearchEffect
    \/ /\ GridSearchSettled
       /\ \E data \in GridData : DataChange(data)
    \/ /\ GridSearchSettled
       /\ \E value \in {"", " ", "a", "AN", "10", "zz"} : setSearchQuery(value)
    \/ /\ GridSearchSettled
       /\ PreviousClick
    \/ /\ GridSearchSettled
       /\ NextClick
    \/ /\ GridSearchSettled
       /\ PageLinkClick
    \/ /\ GridSearchSettled
       /\ LastClick
    \/ /\ GridSearchSettled
       /\ \E value \in {"", "abc", "-1", "0", "1", "3", "9", "10", "99", "2.7", " 4"} :
             handleGoToPage(value)

SpecGridSearch == InitGrid /\ [][NextGridSearch]_vars

(***************************************************************************)
(* The current page of the grid (SpecGrid, SpecGridSearch).                *)
(***************************************************************************)
\* C33 (as claimed): whatever the sequence of data changes and clicks, the
\* current page of the grid lies within 1..max(1, totalPages), totalPages the
\* pages of the displayed records at 6 a page, and a change of the data resets
\* the current page to 1: a render that shows other records than the render
\* before it, the page not changed by a click, is at page 1.
C33_Original ==
    /\ [](currentPage \in 1..MathMax(1, totalPages(filteredAttendanceRecords)))
    /\ [][(/\ gridView # Null
           /\ gridView' # gridView
           /\ gridView'.currentPage = gridView.currentPage) =>
              gridView'.currentPage = 1]_vars

\* the same of the grid with search, whose displayed records are filteredData
C33_SearchVersion ==
    /\ [](currentPage \in 1..MathMax(1, totalPages(filteredData)))
    /\ [][(/\ gridView # Null
           /\ gridView' # gridView
           /\ gridView'.currentPage = gridView.currentPage) =>
              gridView'.currentPage = 1]_vars


(***************************************************************************)
(* Go-to-page and paging of the grid with search (SpecGridSearch).         *)
(***************************************************************************)
\* C34: a submit of the go-to-page form sets the current page to the number
\* parseInt reads from the input when that number lies within 1..totalPages,
\* and leaves the current page as it is for any other input (below 1, above
\* totalPages, not a number); nothing else of the grid or of the page changes.
C34_GoToPageGuard ==
    [][pageInput' # pageInput =>
          LET page == parseInt(pageInput'.value)
          IN /\ IF page.type = "number" /\ page.value >= 1
                     /\ page.value <= totalPages(filteredData)
                THEN currentPage' = page.value
                ELSE currentPage' = currentPage
             /\ UNCHANGED <<indexVars, filteredEmployeeData, filteredAttendanceRecords,
                            rendered, axiosResponses, searchQuery, filteredData, gridDeps,
                            gridView, mockDailyAttendanceData, isLateCall>>]_vars

\* on page 3 of 5 the form was submitted with 99, and the grid is still on
\* page 3
C34_Witness ==
    /\ pageInput = Str("99")
    /\ currentPage = 3
    /\ totalPages(filteredData) = 5
    /\ gridView # Null
    /\ gridView.currentPage = 3


\* the records of pages 1..k one after the other
RECURSIVE PagesUpTo(_, _)
PagesUpTo(records, k) ==
    IF k = 0 THEN <<>> ELSE PagesUpTo(records, k - 1) \o currentItems(records, k)

\* C35: with 6 records a page, page k of 1..totalPages shows the records at
\* positions 6(k-1)+1 .. min(6k, n) of the n displayed records in their order
\* and is not empty, and the pages 1..totalPages one after the other are the
\* displayed records (each record on exactly one page); the cards a render
\* shows are those of its current page.
C35_PagesPartition ==
    LET n == Len(filteredData) IN
    /\ \A k \in 1..totalPages(filteredData) :
          /\ currentItems(filteredData, k) =
                 SubSeq(filteredData, 6 * (k - 1) + 1, MathMin(6 * k, n))
          /\ currentItems(filteredData, k) # <<>>
    /\ PagesUpTo(filteredData, totalPages(filteredData)) = filteredData
    /\ GridSearchSettled /\ currentPage <= totalPages(filteredData) =>
          gridView.currentItems =
              SubSeq(filteredData, 6 * (currentPage - 1) + 1, MathMin(6 * currentPage, n))

\* the third and last page of 13 records is on screen with its one record
C35_Witness ==
    /\ GridSearchSettled
    /\ Len(filteredData) = 13
    /\ currentPage = 3
    /\ gridView.currentItems = <<filteredData[13]>>


\* items is a pagination bar for current page c of T pages as C36 describes it
PaginationBar(items, c, T) ==
    LET links == SelectSeq(items, LAMBDA item : item.type = "page")
        pages == {links[i].page : i \in 1..Len(links)}
        w == MathMin(5, T)
    IN /\ Len(items) > 0
       /\ items[1].type = "page" /\ items[1].page = 1
       /\ items[Len(items)].type = "page" /\ items[Len(items)].page = T
       /\ \A i \in 1..(Len(links) - 1) : links[i].page < links[i + 1].page
       /\ \A i \in 1..Len(links) : links[i].isActive <=> links[i].page = c
       /\ \E s \in 1..T :
             /\ s + w - 1 <= T
             /\ c \in s..(s + w - 1)
             /\ pages = (s..(s + w - 1)) \cup {1, T}
       /\ \A i \in 1..(Len(items) - 1) :
             /\ (items[i].type = "page" /\ items[i + 1].type = "page") =>
                    items[i + 1].page = items[i].page + 1
             /\ items[i].type = "ellipsis" =>
                    /\ i > 1
                    /\ items[i - 1].type = "page"
                    /\ items[i + 1].type = "page"
                    /\ items[i + 1].page > items[i - 1].page + 1

\* C36: for every number of pages T >= 2 and current page c in 1..T, the bar
\* of the grid with search shows a run of min(5, T) consecutive page numbers
\* holding c, and page 1 and page T, each page number once and in order, with
\* an ellipsis exactly where page numbers are skipped; the other component
\* renders the same bar; and the bar on screen is the one of the current page.
C36_PaginationWindow ==
    /\ \A T \in 2..totalPages(filteredData) : \A c \in 1..T :
          /\ PaginationBar(renderPaginationItemsSearch(c, T), c, T)
          /\ renderPaginationItems(c, T) = renderPaginationItemsSearch(c, T)
    /\ (GridSearchSettled /\ totalPages(filteredData) >= 2) =>
          /\ gridView.pagination =
                 renderPaginationItemsSearch(currentPage, totalPages(filteredData))
          /\ PaginationBar(gridView.pagination, currentPage, totalPages(filteredData))

\* page 5 of 9 is on screen: 1, an ellipsis, 3..7, an ellipsis, 9
C36_Witness ==
    /\ GridSearchSettled
    /\ totalPages(filteredData) = 9
    /\ currentPage = 5
    /\ Len(gridView.pagination) = 9
    /\ gridView.pagination[2] = PaginationEllipsis("ellipsis-start")
    /\ gridView.pagination[3] = PaginationLink(3, 5)
    /\ gridView.pagination[8] = PaginationEllipsis("ellipsis-end")


(***************************************************************************)
(* data/mockData.ts: the generated daily attendance entries and isLate.    *)
(* The module is evaluated when it is imported, before Index mounts.       *)
(***************************************************************************)
\* days generated (the source generates 30, each by the same callback)
MaxDays == 1

\* the values of Math.floor(Math.random() * n)
MathFloorRandom(n) == 0..(n - 1)

\* the page before its first render, nothing generated yet
InitMock ==
    /\ isLoading = TRUE
    /\ employeeData = <<>>
    /\ attendanceTrendData = <<>>
    /\ attendanceRecords = <<>>
    /\ lateStatistics = Null
    /\ onTimeStatistics = Null
    /\ filters = DefaultFilters
    /\ isInitialDateSynchronized = FALSE
    /\ localStorage = EmptyStore
    /\ sessionStorage = EmptyStore
    /\ effectDeps = <<>>
    /\ passes = <<>>
    /\ userChanges = 0
    /\ tzWest = FALSE
    /\ filteredEmployeeData = <<>>
    /\ filteredAttendanceRecords = <<>>
    /\ rendered = Null
    /\ ComponentsInit

\* generateDailyAttendanceData: the callback of days.map for the next day,
\* r1..r4 the values of its four Math.floor(Math.random() * n)
generateDailyAttendanceData ==
    /\ Len(mockDailyAttendanceData) < MaxDays
    /\ \E r1 \in MathFloorRandom(20), r2 \in MathFloorRandom(15),
          r3 \in MathFloorRandom(30), r4 \in MathFloorRandom(30) :
          LET day == "Day " \o ToString(Len(mockDailyAttendanceData) + 1)
              onTimePercent == r1 + 70
              latePercent == r2 + 5
              absentPercent == 100 - onTimePercent - latePercent
              earlyMorningPercent == r3 + 20
              onTimeArrivalPercent == r4 + 40
              lateArrivalPercent == 100 - earlyMorningPercent - onTimeArrivalPercent
          IN mockDailyAttendanceData' =
                 Append(mockDailyAttendanceData,
                        [day |-> day,
                         onTimePercent |-> onTimePercent,
                         latePercent |-> latePercent,
                         absentPercent |-> absentPercent,
                         timePatterns |-> [earlyMorningPercent |-> earlyMorningPercent,
                                           onTimeArrivalPercent |-> onTimeArrivalPercent,
                                           lateArrivalPercent |-> lateArrivalPercent]])
    /\ UNCHANGED <<indexVars, filteredEmployeeData, filteredAttendanceRecords, rendered,
                   axiosResponses, currentPage, searchQuery, filteredData, gridDeps,
                   gridView, pageInput, isLateCall>>

SpecMock == InitMock /\ [][generateDailyAttendanceData]_vars

\* n is a percentage
Percentage(n) == n \in 0..100

\* C37 (as claimed): every generated daily entry has onTimePercent, latePercent
\* and absentPercent each within 0..100 and summing to 100, and its three
\* timePatterns percentages each within 0..100 and summing to 100.
C37_Original ==
    \A i \in 1..Len(mockDailyAttendanceData) :
        LET entry == mockDailyAttendanceData[i]
            patterns == entry.timePatterns
        IN /\ Percentage(entry.onTimePercent)
           /\ Percentage(entry.latePercent)
           /\ Percentage(entry.absentPercent)
           /\ entry.onTimePercent + entry.latePercent + entry.absentPercent = 100
           /\ Percentage(patterns.earlyMorningPercent)
           /\ Percentage(patterns.onTimeArrivalPercent)
           /\ Percentage(patterns.lateArrivalPercent)
           /\ patterns.earlyMorningPercent + patterns.onTimeArrivalPercent
                  + patterns.lateArrivalPercent = 100

\* what does hold of every entry: both sums are 100, the drawn percentages are
\* within their ranges, and the two remainders lie within -8..25 and -18..40
C37_SumsOnly ==
    \A i \in 1..Len(mockDailyAttendanceData) :
        LET entry == mockDailyAttendanceData[i]
            patterns == entry.timePatterns
        IN /\ entry.onTimePercent \in 70..89
           /\ entry.latePercent \in 5..19
           /\ entry.absentPercent \in -8..25
           /\ entry.onTimePercent + entry.latePercent + entry.absentPercent = 100
           /\ patterns.earlyMorningPercent \in 20..49
           /\ patterns.onTimeArrivalPercent \in 40..69
           /\ patterns.lateArrivalPercent \in -18..40
           /\ patterns.earlyMorningPercent + patterns.onTimeArrivalPercent
                  + patterns.lateArrivalPercent = 100


standardCheckInTime == [hour |-> 9, minute |-> 0]

\* variant of isLate that counts a check-in at the standard minute as late
isLate_FromStandard(checkInHour, checkInMinute) ==
    IF checkInHour > standardCheckInTime.hour THEN TRUE
    ELSE IF checkInHour = standardCheckInTime.hour
            /\ checkInMinute >= standardCheckInTime.minute THEN TRUE
    ELSE FALSE

isLate(checkInHour, checkInMinute) ==
    IF checkInHour > standardCheckInTime.hour THEN TRUE
    ELSE IF checkInHour = standardCheckInTime.hour
            /\ checkInMinute > standardCheckInTime.minute THEN TRUE
    ELSE FALSE

\* a call of isLate with a time of day
CallIsLate ==
    /\ \E checkInHour \in 0..23, checkInMinute \in 0..59 :
          isLateCall' = [checkInHour |-> checkInHour,
                         checkInMinute |-> checkInMinute,
                         returned |-> isLate(checkInHour, checkInMinute)]
    /\ UNCHANGED <<indexVars, filteredEmployeeData, filteredAttendanceRecords, rendered,
                   axiosResponses, currentPage, searchQuery, filteredData, gridDeps,
                   gridView, pageInput, mockDailyAttendanceData>>

SpecIsLate == InitMock /\ [][CallIsLate]_vars

\* C38: isLate(hour, minute) returns true exactly when the check-in is after
\* 9:00, that is hour > 9 or hour = 9 and minute > 0; at 9:00 sharp or earlier
\* it returns false.
C38_LateAfterNine ==
    isLateCall # Null =>
        /\ isLateCall.returned <=>
               \/ isLateCall.checkInHour > 9
               \/ isLateCall.checkInHour = 9 /\ isLateCall.checkInMinute > 0
        /\ 60 * isLateCall.checkInHour + isLateCall.checkInMinute <= 60 * 9 =>
               ~isLateCall.returned

\* isLate was called with 9:00 and returned false
C38_Witness ==
    isLateCall = [checkInHour |-> 9, checkInMinute |-> 0, returned |-> FALSE]

\* isLate was called with 9:01 and returned true
C38_WitnessLate ==
    isLateCall = [checkInHour |-> 9, checkInMinute |-> 1, returned |-> TRUE]

====
